---- MODULE Spec2Model ----
(***************************************************************************)
(* Model of the admin-mcp orchestration pipeline (mcp-server):             *)
(*   ChatService      processQuery / processQueryStream and the retry loop *)
(*   PlannerService   createPlan, loadApiMetadata (cache), validatePlan    *)
(*                    resolveIntent and its similarity scores              *)
(*   ExecutorService  executePlan, interpolation, auth forwarding, HTTP    *)
(*   CacheService     response cache, user sessions                        *)
(*   JSONPathUtil     evaluateJSONPath                                     *)
(*   EventEmitter     on, once, off, emit (frontend utility)               *)
(*   healer           addMissingParameters, correctParameters,             *)
(*                    addErrorMessages on the metadata store               *)
(***************************************************************************)
EXTENDS Integers, Sequences, FiniteSets, TLC

VARIABLES
  \* ---- metadata store (typeorm repositories)
  reqParams,      \* RequestParameter rows
  respMsgs,       \* ResponseMessage rows
  \* ---- healer harness (SpecHeal)
  healDelta,      \* the delta set being applied
  healRound,      \* how many times healDelta has been applied
  healSnap,       \* the store after the first application
  healCount,      \* delta sets drawn so far
  healers,        \* concurrent requests in the healer: where each is, the
                  \* delta item it applies and the row its findOne gave
  \* ---- PlannerService
  metadataCache,  \* metadataCache: projectId -> ApiMetadata (NoMeta: no entry)
  usedMetadata,   \* the `metadata` the latest createPlan validated against
  plannerCalls,   \* createPlan invocations of the request
  llmReply,       \* what callLLM gave the latest createPlan (its kind)
  \* ---- ChatService: one request
  mode,           \* "idle" | "sync" (processQuery) | "stream" (processQueryStream)
  pc,             \* where the request is
  request,        \* the ChatRequest
  stack,          \* active calls of processQueryWithRetry[Stream], outermost first
  plan,           \* `plan` of the current pass
  analysis,       \* `errorAnalysis` of the current pass (NoAnalysis: not asked)
  analystCalls,   \* analyzeErrorWithLLM invocations of the request
  healed,         \* updateMetadataFromError ran in this request
  response,       \* the ChatResponse processQuery returned
  updates,        \* the updates processQueryStream emitted
  \* ---- ExecutorService: the current executePlan
  stepIdx,        \* loop index i
  stepResults,    \* stepResults
  pendingReq,     \* the request makeHttpRequest is between attempts of
  lastReq,        \* the latest outbound HTTP request of the pass
  sentSteps,      \* step indexes a request was dispatched for
  execResult,     \* the ExecutionResult executePlan returned
  judgeReply,     \* the reply the judge's LLM call gave for the step just
                  \* completed ("none": not asked, "error": the call failed)
  \* ---- CacheService
  cache,            \* the response cache: its [key, value] in key order
  userSessionCache, \* userId -> the user's session list, newest first
  now,              \* Date.now()
  stored,           \* storeResponseData invocations
  context,          \* what the latest findRelevantContext returned
  contextFor,       \* its arguments
  chatHistoryCache, \* the chat histories: <<projectId, userId>> -> items, newest first
  cleared,          \* the arguments of the latest clearUserCache, and how many
                    \* calls there were
  \* ---- the caller
  cancelled,        \* the caller gave the request up while it was in progress
  \* ---- PlannerService.resolveIntent on its own (SpecIntent)
  intentInput,      \* userQuery, the query embedding and metadata.endpoints
  matchedEndpoints, \* what the latest resolveIntent returned
  previousMatch,    \* what the call before it returned
  resolveCalls,     \* resolveIntent invocations
  \* ---- JSONPathUtil on its own (SpecJson)
  jsonArgs,         \* path and data of evaluateJSONPath
  jsonResult,       \* what it returned
  \* ---- EventEmitter (frontend) on its own (SpecEmitter)
  events,           \* this.events[event]: the listeners of the event, in order
  registrations,    \* on() and once() calls so far
  emitLog           \* per emit() call: the listeners registered when it was
                    \* called and the listeners it invoked, in order

healVars == <<healDelta, healRound, healSnap, healCount, healers>>
storeVars == <<reqParams, respMsgs>>
plannerVars == <<metadataCache, usedMetadata, plannerCalls, llmReply>>
chatVars == <<mode, pc, request, stack, plan, analysis, analystCalls, healed,
              response, updates>>
execVars == <<stepIdx, stepResults, pendingReq, lastReq, sentSteps, execResult,
              judgeReply>>
cacheVars == <<cache, userSessionCache, now, stored, context, contextFor,
               chatHistoryCache, cleared>>
intentVars == <<intentInput, matchedEndpoints, previousMatch, resolveCalls>>
jsonVars == <<jsonArgs, jsonResult>>
emitterVars == <<events, registrations, emitLog>>
vars == <<storeVars, healVars, plannerVars, chatVars, execVars, cacheVars,
          cancelled, intentVars, jsonVars, emitterVars>>

----------------------------------------------------------------------------
(* Bounds *)

\* delta sets drawn one after another in SpecHeal
MaxHeals == 2

----------------------------------------------------------------------------
(* Metadata store *)

NoRow == [id |-> 0]

\* Endpoint rows: the healer never writes them. Project 2 repeats a
\* (method, path) of project 1.
Endpoints ==
  { [id |-> 1, projectId |-> 1, method |-> "GET",  path |-> "/pets"],
    [id |-> 2, projectId |-> 1, method |-> "POST", path |-> "/pet"],
    [id |-> 3, projectId |-> 2, method |-> "POST", path |-> "/pet"] }

\* String.prototype.toUpperCase on the method names and judge replies that occur
toUpperCase(m) ==
  CASE m = "get"  -> "GET"
    [] m = "post" -> "POST"
    [] m = "yes"  -> "YES"
    [] OTHER      -> m

\* endpointRepository.findOne({where: {project: {id}, path, method}})
FindEndpoint(projectId, path, method) ==
  LET hits == { e \in Endpoints :
                  e.projectId = projectId /\ e.path = path /\ e.method = method }
  IN IF hits = {} THEN NoRow ELSE CHOOSE e \in hits : TRUE

\* requestParameterRepository.findOne({where: {endpoint: {id}, name}}): the
\* candidate rows; with no ORDER BY the database returns any one of them.
FindParams(rp, endpointId, name) ==
  { r \in rp : r.endpointId = endpointId /\ r.name = name }

\* responseMessageRepository.findOne({where: {endpoint: {id}, statusCode}})
FindMsgs(rm, endpointId, statusCode) ==
  { r \in rm : r.endpointId = endpointId /\ r.statusCode = statusCode }

\* a RequestParameter row
Param(id, endpointId, name, in, required) ==
  [id |-> id, endpointId |-> endpointId, name |-> name, type |-> "string",
   required |-> required, in |-> in]

Max(S) == CHOOSE x \in S : \A y \in S : y <= x

\* @PrimaryGeneratedColumn: the id a repository gives a new row
NextId(rows) == IF rows = {} THEN 1 ELSE Max({ r.id : r \in rows }) + 1

----------------------------------------------------------------------------
(* Healer: the three delta kinds, as the set of stores a call can leave *)

\* one iteration of addMissingParameters' loop
AddMissingParameter(rp, projectId, p) ==
  LET endpoint == FindEndpoint(projectId, p.endpointPath, toUpperCase(p.method))
  IN IF endpoint = NoRow THEN {rp}
     ELSE LET existing == FindParams(rp, endpoint.id, p.parameterName)
          IN IF existing # {}
             THEN { (rp \ {e}) \cup
                      { [e EXCEPT !.required = p.isRequired,
                                  !.type = p.parameterType,
                                  !.in = p.location] } : e \in existing }
             ELSE { rp \cup { [id |-> NextId(rp),
                               endpointId |-> endpoint.id,
                               name |-> p.parameterName,
                               type |-> p.parameterType,
                               required |-> p.isRequired,
                               in |-> p.location] } }

RECURSIVE addMissingParameters(_, _, _)
addMissingParameters(rp, projectId, missingParameters) ==
  IF missingParameters = <<>> THEN {rp}
  ELSE UNION { addMissingParameters(r1, projectId, Tail(missingParameters)) :
                 r1 \in AddMissingParameter(rp, projectId, Head(missingParameters)) }

\* one iteration of correctParameters' loop
CorrectParameter(rp, projectId, c) ==
  LET endpoint == FindEndpoint(projectId, c.endpointPath, toUpperCase(c.method))
  IN IF endpoint = NoRow THEN {rp}
     ELSE LET param == FindParams(rp, endpoint.id, c.oldParameterName)
          IN IF param = {} THEN {rp}
             ELSE { (rp \ {e}) \cup { [e EXCEPT !.name = c.newParameterName] } :
                      e \in param }

RECURSIVE correctParameters(_, _, _)
correctParameters(rp, projectId, corrections) ==
  IF corrections = <<>> THEN {rp}
  ELSE UNION { correctParameters(r1, projectId, Tail(corrections)) :
                 r1 \in CorrectParameter(rp, projectId, Head(corrections)) }

\* one iteration of addErrorMessages' loop
AddErrorMessage(rm, projectId, m) ==
  LET endpoint == FindEndpoint(projectId, m.endpointPath, toUpperCase(m.method))
  IN IF endpoint = NoRow THEN rm
     ELSE IF FindMsgs(rm, endpoint.id, m.statusCode) # {} THEN rm
     ELSE rm \cup { [id |-> NextId(rm),
                     endpointId |-> endpoint.id,
                     statusCode |-> m.statusCode,
                     message |-> m.message,
                     suggestion |-> m.suggestion] }

RECURSIVE addErrorMessages(_, _, _)
addErrorMessages(rm, projectId, errorMessages) ==
  IF errorMessages = <<>> THEN rm
  ELSE addErrorMessages(AddErrorMessage(rm, projectId, Head(errorMessages)),
                        projectId, Tail(errorMessages))

\* updateMetadataFromError after extractMetadataUpdates returned
\* metadataUpdates: the stores [params, msgs] it can leave.  A field the
\* extractor left out is the empty sequence here (both skip the call).
updateMetadataFromError(rp, rm, projectId, metadataUpdates) ==
  { [params |-> r2,
     msgs   |-> addErrorMessages(rm, projectId, metadataUpdates.errorMessages)] :
      r2 \in UNION { correctParameters(r1, projectId,
                                       metadataUpdates.parameterCorrections) :
                       r1 \in addMissingParameters(rp, projectId,
                                                   metadataUpdates.missingParameters) } }

----------------------------------------------------------------------------
(* Plans, parameter values, HTTP payloads *)

ParamNames == {"status", "name", "photoUrls", "Authorization"}

\* A parameter value of a plan step.  "lit": a literal; "ref": the string
\* "$.steps[<step>].response.<text>" (typeof value === 'string' and
\* value.startsWith('$.')); "absent": the key is not in params.
Absent == [kind |-> "absent", step |-> 0, text |-> ""]
Lit(t) == [kind |-> "lit", step |-> 0, text |-> t]
Ref(i, f) == [kind |-> "ref", step |-> i, text |-> f]

NoParams == [n \in ParamNames |-> Absent]
With1(n, v) == [NoParams EXCEPT ![n] = v]
With2(n1, v1, n2, v2) == [NoParams EXCEPT ![n1] = v1, ![n2] = v2]

\* PlanStep {endpoint: "METHOD PATH", params}
PlanStep(method, path, params) == [endpoint |-> <<method, path>>, params |-> params]

GetPets == PlanStep("GET", "/pets", NoParams)

\* the `steps` arrays the planner's LLM answers with
PlanSteps ==
  { << >>,
    << GetPets >>,
    << PlanStep("GET", "/pets", With1("status", Lit("available"))) >>,
    << PlanStep("GET", "/pets", With1("Authorization", Lit("Bearer evil"))) >>,
    << PlanStep("POST", "/pet", NoParams) >>,
    << PlanStep("POST", "/pet", With1("name", Lit("rex"))) >>,
    << PlanStep("POST", "/pet", With2("name", Lit("rex"), "photoUrls", Lit("x"))) >>,
    << PlanStep("GET", "/nope", NoParams) >>,
    << GetPets, PlanStep("POST", "/pet", With1("name", Ref(0, "id"))) >>,
    << GetPets, PlanStep("POST", "/pet", With1("name", Ref(0, "nope"))) >>,
    << PlanStep("POST", "/pet", With1("name", Ref(1, "id"))), GetPets >>,
    << PlanStep("GET", "/pets", With1("status", Ref(0, "id"))) >>,
    << GetPets, GetPets, PlanStep("POST", "/pet", With1("name", Ref(1, "id"))) >> }

\* what callLLM and the JSON.parse of validatePlan can see
PlanReplies ==
  { [kind |-> "llm_error", steps |-> << >>],    \* the call failed or was empty
    [kind |-> "bad_json", steps |-> << >>],     \* JSON.parse throws
    [kind |-> "no_steps", steps |-> << >>] }    \* an object without a steps array
  \cup { [kind |-> "plan", steps |-> s] : s \in PlanSteps }

NoPlan == << [endpoint |-> <<"", "">>, params |-> NoParams] >>

\* response bodies of the target service: an object with or without `id`
DataUser == [kind |-> "object", id |-> "123"]
DataEmpty == [kind |-> "object", id |-> ""]
DataFalsy == [kind |-> "string", id |-> ""]
NoData == [kind |-> "undefined", id |-> ""]

\* a JavaScript truthy value: an object is, the empty string and undefined
\* are not
Truthy(data) == data.kind = "object"

HasField(data, f) == data.kind = "object" /\ f = "id" /\ data.id # ""

----------------------------------------------------------------------------
(* PlannerService *)

NoMeta == << [id |-> 0] >>

\* order: { path: 'ASC' } over the paths of the catalog
PathOrder == << "/pet", "/pets" >>

EndpointAt(projectId, path) ==
  { e \in Endpoints : e.projectId = projectId /\ e.path = path }

RECURSIVE EndpointsByPath(_, _)
EndpointsByPath(projectId, paths) ==
  IF paths = << >> THEN << >>
  ELSE LET here == EndpointAt(projectId, Head(paths))
           rest == EndpointsByPath(projectId, Tail(paths))
       IN IF here = {} THEN rest ELSE << CHOOSE e \in here : TRUE >> \o rest

\* loadApiMetadata past the cache check: endpointRepo.find with
\* relations ['requestParameters'], mapped to ApiMetadata.endpoints
LoadFromDb(rp, projectId) ==
  LET eps == EndpointsByPath(projectId, PathOrder)
  IN [ i \in 1..Len(eps) |->
         [id |-> eps[i].id, method |-> eps[i].method, path |-> eps[i].path,
          parameters |-> { [name |-> r.name, in |-> r.in, type |-> r.type,
                            required |-> r.required] :
                             r \in { x \in rp : x.endpointId = eps[i].id } }] ]

\* loadApiMetadata: the cached entry when there is one
loadApiMetadata(cached, rp, projectId) ==
  IF cached[projectId] # NoMeta THEN cached[projectId] ELSE LoadFromDb(rp, projectId)

\* path.includes('{') on the paths of the catalog
includesBrace(path) == path \in {"/pet/{petId}"}

RequiredOf(ep) == { p.name : p \in { q \in ep.parameters : q.required } }

\* createFallbackPlan taking the first endpoint of the catalog whatever its
\* method and parameters
createFallbackPlanFirstEndpoint(metadata) ==
  IF metadata = << >> THEN [ok |-> FALSE, steps |-> << >>]
  ELSE [ok |-> TRUE,
        steps |-> << [endpoint |-> <<metadata[1].method, metadata[1].path>>,
                      params |-> NoParams] >>]

\* createFallbackPlan: [ok, steps]; ok = FALSE is its throw
createFallbackPlan(metadata) ==
  LET idx == DOMAIN metadata
      getEndpoints == { i \in idx : /\ metadata[i].method = "GET"
                                    /\ ~includesBrace(metadata[i].path)
                                    /\ RequiredOf(metadata[i]) = {} }
      simpleEndpoints == { i \in idx : RequiredOf(metadata[i]) = {} }
      first(S) == CHOOSE i \in S : \A j \in S : i <= j
      one(i) == << [endpoint |-> <<metadata[i].method, metadata[i].path>>,
                    params |-> NoParams] >>
  IN IF getEndpoints # {} THEN [ok |-> TRUE, steps |-> one(first(getEndpoints))]
     ELSE IF simpleEndpoints # {} THEN [ok |-> TRUE, steps |-> one(first(simpleEndpoints))]
     ELSE [ok |-> FALSE, steps |-> << >>]

\* the per-step checks of validatePlan without the endpointMap lookup
StepValidUnknownEndpoint(step, metadata) == TRUE

\* the per-step checks of validatePlan: a known endpoint and its required
\* parameters
StepValid(step, metadata) ==
  \E i \in DOMAIN metadata :
    /\ <<metadata[i].method, metadata[i].path>> = step.endpoint
    /\ \A n \in RequiredOf(metadata[i]) :
         n \in ParamNames /\ step.params[n] # Absent

\* validatePlan: [ok, steps]; ok = FALSE is a throw
validatePlan(reply, metadata) ==
  IF reply.kind # "plan" THEN [ok |-> FALSE, steps |-> << >>]
  ELSE LET p == IF reply.steps = << >> THEN createFallbackPlan(metadata)
                ELSE [ok |-> TRUE, steps |-> reply.steps]
       IN IF p.ok /\ \A k \in 1..Len(p.steps) : StepValid(p.steps[k], metadata)
          THEN p
          ELSE [ok |-> FALSE, steps |-> << >>]

----------------------------------------------------------------------------
(* ExecutorService *)

\* the caller's credential (UserContext); present = FALSE: no userContext
UserContexts ==
  { [present |-> FALSE, authType |-> "none", bearerToken |-> "",
     sessionCookie |-> "", cookieName |-> ""],
    [present |-> TRUE, authType |-> "none", bearerToken |-> "",
     sessionCookie |-> "", cookieName |-> ""],
    [present |-> TRUE, authType |-> "bearer", bearerToken |-> "t1",
     sessionCookie |-> "", cookieName |-> ""],
    [present |-> TRUE, authType |-> "session", bearerToken |-> "",
     sessionCookie |-> "s1", cookieName |-> "session"] }

\* `Bearer ${bearerToken}` and `${cookieName}=${sessionCookie}`
BearerOf(token) == IF token = "t1" THEN "Bearer t1" ELSE "Bearer "
CookieOf(name, value) ==
  IF name = "session" /\ value = "s1" THEN "session=s1" ELSE "="

HeaderNames == {"Content-Type", "Authorization", "Cookie"} \cup ParamNames

\* a headers object: "" stands for a key that is not set
NoHeaders == [h \in HeaderNames |-> ""]

\* AuthService.createAuthHeaders
createAuthHeaders(userContext) ==
  IF ~userContext.present \/ userContext.authType = "none" THEN NoHeaders
  ELSE IF userContext.authType = "bearer" /\ userContext.bearerToken # ""
    THEN [NoHeaders EXCEPT !["Authorization"] = BearerOf(userContext.bearerToken)]
  ELSE IF /\ userContext.authType = "session"
          /\ userContext.sessionCookie # ""
          /\ userContext.cookieName # ""
    THEN [NoHeaders EXCEPT !["Cookie"] =
            CookieOf(userContext.cookieName, userContext.sessionCookie)]
  ELSE NoHeaders

\* Object.assign(target, source)
ObjectAssign(target, source) ==
  [h \in HeaderNames |-> IF source[h] # "" THEN source[h] ELSE target[h]]

\* JSONPath.query(dataContext, "$.steps[i].response.f"): the matches
JSONPathQuery(ref, previousResults) ==
  IF /\ ref.step < Len(previousResults)
     /\ HasField(previousResults[ref.step + 1].response, ref.text)
  THEN { previousResults[ref.step + 1].response.id }
  ELSE {}

\* interpolateParameters with resolveJSONPath: a reference with no match
\* throws in resolveJSONPath, is caught, and keeps its original string
interpolateParameters(params, previousResults) ==
  [ n \in ParamNames |->
      IF params[n].kind = "ref"
      THEN LET results == JSONPathQuery(params[n], previousResults)
           IN IF results = {} THEN params[n]
              ELSE Lit(CHOOSE r \in results : TRUE)
      ELSE params[n] ]

\* String(paramValue)
StringOf(v) == IF v.kind = "lit" THEN v.text ELSE "$.steps[i].response.f"

\* endpoint.requestParameters?.find(p => p.name === paramName): the rows it
\* can return (one row unless names repeat)
ParamDefs(rp, endpointId, paramName) == FindParams(rp, endpointId, paramName)

\* no outcome: the attempt is the first one
NoOutcome == [status |-> 0, code |-> "", data |-> NoData]

\* an outbound request: `attempt` of makeHttpRequest's loop, the delay
\* awaited before it and the outcome of the attempt before it
NoReq == [step |-> 0 - 1, attempt |-> 0, endpoint |-> <<"", "">>, headers |-> NoHeaders,
          delay |-> 0, after |-> NoOutcome]

\* executeStep up to the call of makeHttpRequest: [ok, req]; ok = FALSE is
\* the throw for an endpoint that is not in the store
executeStep(i, step, params, rp, userContext, projectId) ==
  LET endpoint == FindEndpoint(projectId, step.endpoint[2], toUpperCase(step.endpoint[1]))
      base == [NoHeaders EXCEPT !["Content-Type"] = "application/json"]
      withAuth == IF userContext.present
                  THEN ObjectAssign(base, createAuthHeaders(userContext))
                  ELSE base
      isHeader(n) == /\ params[n] # Absent
                     /\ ParamDefs(rp, endpoint.id, n) # {}
                     /\ (CHOOSE d \in ParamDefs(rp, endpoint.id, n) : TRUE).in = "header"
      headers == [ h \in HeaderNames |->
                     IF h \in ParamNames /\ isHeader(h)
                     THEN StringOf(params[h]) ELSE withAuth[h] ]
  IN IF endpoint = NoRow THEN [ok |-> FALSE, req |-> NoReq]
     ELSE [ok |-> TRUE,
           req |-> [step |-> i, attempt |-> 0,
                    endpoint |-> <<toUpperCase(step.endpoint[1]), step.endpoint[2]>>,
                    headers |-> headers, delay |-> 0, after |-> NoOutcome]]

\* what httpService.request can come back with
HttpOutcomes ==
  { [status |-> 200, code |-> "", data |-> DataUser],
    [status |-> 200, code |-> "", data |-> DataEmpty],
    [status |-> 200, code |-> "", data |-> DataFalsy],
    [status |-> 400, code |-> "", data |-> NoData],
    [status |-> 500, code |-> "", data |-> NoData],
    [status |-> 0, code |-> "ECONNRESET", data |-> NoData] }

HttpOk(o) == o.status = 200

\* the backoff awaited after a failed `attempt`: delay(1000 * (attempt + 1))
delay(attempt) == 1000 * (attempt + 1)

\* makeHttpRequest's `retries`
retries == 1

\* a retry of whatever failed
isRetriableErrorAlways(o) == TRUE

isRetriableError(o) ==
  o.code \in {"ECONNRESET", "ETIMEDOUT"} \/ o.status >= 500

EndpointById(id) == CHOOSE e \in Endpoints : e.id = id

\* handleStepError's statusMessages; "" for a status that is not in it
statusMessages(statusCode) ==
  CASE statusCode = 400 -> "Bad request - please check your parameters"
    [] statusCode = 401 -> "Authentication required - please log in"
    [] statusCode = 403 -> "Permission denied - you don't have access to this resource"
    [] statusCode = 404 -> "Resource not found"
    [] statusCode = 422 -> "Invalid data provided"
    [] statusCode = 429 -> "Too many requests - please try again later"
    [] statusCode = 500 -> "Server error - please try again later"
    [] statusCode \in {502, 503} -> "Service temporarily unavailable"
    [] OTHER -> ""

\* handleStepError: the messages it can return.  The findOne has two
\* alternatives (endpoint path+method, or any endpoint of the project) and
\* returns any row matching either.
handleStepError(o, label, projectId, rm) ==
  LET rows == { r \in rm :
                  /\ r.statusCode = o.status
                  /\ \/ /\ EndpointById(r.endpointId).path = label[2]
                        /\ EndpointById(r.endpointId).method = label[1]
                     \/ EndpointById(r.endpointId).projectId = projectId }
  IN IF o.status # 0 /\ rows # {} THEN { r.message : r \in rows }
     ELSE IF o.status # 0 /\ statusMessages(o.status) # ""
       THEN {statusMessages(o.status)}
     ELSE IF o.status # 0 THEN {"Request failed with status"}
     ELSE IF o.code = "ETIMEDOUT" THEN {"Request timed out - please try again"}
     ELSE IF o.code = "ECONNREFUSED" THEN {"Unable to connect to the API service"}
     ELSE {"Request failed"}

StepResult(i, label, success, status, data) ==
  [stepIndex |-> i, endpoint |-> label, success |-> success,
   statusCode |-> status, response |-> data, satisfiesUserRequest |-> "unset"]

NoResult == [success |-> FALSE, steps |-> << >>, finalResult |-> NoData,
             error |-> "", earlyTermination |-> FALSE]

\* the answers of checkIfResponseSatisfiesRequest's LLM call
JudgeAnswers == {"YES", "yes", "NO", "error"}

\* checkIfResponseSatisfiesRequest taking every reply but NO, a failed call
\* included, for a YES
checkIfResponseSatisfiesRequestUnlessNo(answer) == answer # "NO"

\* checkIfResponseSatisfiesRequest: content.trim().toUpperCase() === 'YES';
\* false when the call throws
checkIfResponseSatisfiesRequest(answer) ==
  answer # "error" /\ toUpperCase(answer) = "YES"

\* a step succeeded: lines 100-142 up to the judge
StepOk(o) ==
  LET i == stepIdx
      sr == StepResult(i, plan[i + 1].endpoint, TRUE, o.status, o.data)
      all == Append(stepResults, sr)
  IN /\ stepResults' = all
     /\ IF stack[Len(stack)].message # "" /\ i < Len(plan) - 1
        THEN /\ pc' = "judge"
             /\ UNCHANGED <<stepIdx, execResult>>
        ELSE IF i + 1 < Len(plan)
        THEN /\ pc' = "exec"
             /\ stepIdx' = i + 1
             /\ UNCHANGED execResult
        ELSE /\ pc' = "executed"
             /\ execResult' = [success |-> TRUE, steps |-> all,
                               finalResult |-> o.data, error |-> "",
                               earlyTermination |-> FALSE]
             /\ UNCHANGED stepIdx

\* a failed step that is recorded and skipped while steps remain
StepFailedContinue(o) ==
  LET i == stepIdx
      sr == StepResult(i, plan[i + 1].endpoint, FALSE, o.status, NoData)
      all == Append(stepResults, sr)
  IN /\ stepResults' = all
     /\ IF i + 1 < Len(plan)
        THEN /\ pc' = "exec"
             /\ stepIdx' = i + 1
             /\ UNCHANGED execResult
        ELSE /\ pc' = "executed"
             /\ execResult' = [success |-> FALSE, steps |-> all, finalResult |-> NoData,
                               error |-> "Request failed", earlyTermination |-> FALSE]
             /\ UNCHANGED stepIdx

\* a step failed: the catch of lines 144-168
StepFailed(o) ==
  LET i == stepIdx
      sr == StepResult(i, plan[i + 1].endpoint, FALSE, o.status, NoData)
      all == Append(stepResults, sr)
  IN /\ stepResults' = all
     /\ \E msg \in handleStepError(o, plan[i + 1].endpoint, request.projectId, respMsgs) :
          execResult' = [success |-> FALSE, steps |-> all, finalResult |-> NoData,
                         error |-> msg, earlyTermination |-> FALSE]
     /\ pc' = "executed"
     /\ UNCHANGED stepIdx

NotFound == [status |-> 0, code |-> "ENDPOINT_NOT_FOUND", data |-> NoData]

\* one iteration of executePlan's loop up to the first HTTP attempt coming
\* back: interpolateParameters, executeStep, makeHttpRequest attempt 0
ExecuteStep ==
  /\ pc = "exec"
  /\ LET step == plan[stepIdx + 1]
         ip == interpolateParameters(step.params, stepResults)
         es == executeStep(stepIdx, step, ip, reqParams, request.userContext,
                           request.projectId)
     IN IF ~es.ok
        THEN /\ StepFailed(NotFound)
             /\ UNCHANGED <<pendingReq, lastReq, sentSteps>>
        ELSE /\ lastReq' = es.req
             /\ sentSteps' = sentSteps \cup {stepIdx}
             /\ \E o \in HttpOutcomes :
                  IF HttpOk(o)
                  THEN StepOk(o) /\ UNCHANGED pendingReq
                  ELSE IF 0 < retries /\ isRetriableError(o)
                  THEN /\ pc' = "http_retry"
                       /\ pendingReq' = [es.req EXCEPT !.attempt = 1,
                                                        !.delay = delay(0),
                                                        !.after = o]
                       /\ UNCHANGED <<stepIdx, stepResults, execResult>>
                  ELSE StepFailed(o) /\ UNCHANGED pendingReq
  /\ judgeReply' = "none"
  /\ UNCHANGED <<storeVars, healVars, plannerVars>>
  /\ UNCHANGED <<mode, request, stack, plan, analysis, analystCalls, healed,
                 response, updates>>
  /\ UNCHANGED cacheVars
  /\ UNCHANGED <<cancelled, intentVars, jsonVars, emitterVars>>

\* makeHttpRequest's second attempt, after the delay
HttpRetry ==
  /\ pc = "http_retry"
  /\ lastReq' = pendingReq
  /\ \E o \in HttpOutcomes :
       IF HttpOk(o) THEN StepOk(o) ELSE StepFailed(o)
  /\ UNCHANGED <<pendingReq, sentSteps>>
  /\ UNCHANGED judgeReply
  /\ UNCHANGED <<storeVars, healVars, plannerVars>>
  /\ UNCHANGED <<mode, request, stack, plan, analysis, analystCalls, healed,
                 response, updates>>
  /\ UNCHANGED cacheVars
  /\ UNCHANGED <<cancelled, intentVars, jsonVars, emitterVars>>

\* checkIfResponseSatisfiesRequest came back: lines 128-142
Judge ==
  /\ pc = "judge"
  /\ \E answer \in JudgeAnswers :
       LET satisfiesRequest == checkIfResponseSatisfiesRequest(answer)
           n == Len(stepResults)
           all == [stepResults EXCEPT ![n].satisfiesUserRequest =
                     IF satisfiesRequest THEN "true" ELSE "false"]
       IN /\ stepResults' = all
          /\ judgeReply' = answer
          /\ IF satisfiesRequest
             THEN /\ execResult' = [success |-> TRUE, steps |-> all,
                                    finalResult |-> all[n].response, error |-> "",
                                    earlyTermination |-> TRUE]
                  /\ pc' = "executed"
                  /\ UNCHANGED stepIdx
             ELSE /\ stepIdx' = stepIdx + 1
                  /\ pc' = "exec"
                  /\ UNCHANGED execResult
  /\ UNCHANGED <<pendingReq, lastReq, sentSteps>>
  /\ UNCHANGED <<storeVars, healVars, plannerVars>>
  /\ UNCHANGED <<mode, request, stack, plan, analysis, analystCalls, healed,
                 response, updates>>
  /\ UNCHANGED cacheVars
  /\ UNCHANGED <<cancelled, intentVars, jsonVars, emitterVars>>

----------------------------------------------------------------------------
(* CacheService *)

Projects == {1, 2}

\* the queries of the cache's callers
Queries == {"find pets", "Find Pet", "list orders"}

\* query.toLowerCase().split(/\s+/)
LowerWords(query) ==
  CASE query = "find pets" -> << "find", "pets" >>
    [] query = "Find Pet" -> << "find", "pet" >>
    [] query = "list orders" -> << "list", "orders" >>
    [] query = "find available pets" -> << "find", "available", "pets" >>
    [] query = "find orders" -> << "find", "orders" >>
    [] OTHER -> << >>

\* word.length
WordLength(w) ==
  CASE w = "find" -> 4 [] w = "pets" -> 4 [] w = "pet" -> 3 [] w = "list" -> 4
    [] w = "orders" -> 6 [] w = "available" -> 9 [] OTHER -> 0

\* a.includes(b) on the words of the model
Includes(a, b) == a = b \/ (a = "pets" /\ b = "pet")

commonWords ==
  {"get", "find", "show", "list", "create", "update", "delete", "the", "a",
   "an", "and", "or", "with", "for", "of", "in", "on", "at", "to", "from"}

\* seq.slice(0, n)
Slice(seq, n) == SubSeq(seq, 1, IF Len(seq) < n THEN Len(seq) ELSE n)

Range(seq) == { seq[i] : i \in DOMAIN seq }

\* extractKeywords
extractKeywords(query) ==
  LET meaningful(word) == WordLength(word) > 2 /\ word \notin commonWords
  IN Slice(SelectSeq(LowerWords(query), meaningful), 5)

\* hasRelevantKeywords: cachedQuery.toLowerCase().includes(keyword); a
\* keyword has no whitespace, so it is found inside one word
hasRelevantKeywords(cachedQuery, keywords) ==
  \E keyword \in Range(keywords) :
    \E w \in Range(LowerWords(cachedQuery)) : Includes(w, keyword)

\* calculateRelevanceScore
calculateRelevanceScore(cachedQuery, currentQuery) ==
  LET cachedKeywords == extractKeywords(cachedQuery)
      currentKeywords == extractKeywords(currentQuery)
      exact == { i \in DOMAIN currentKeywords :
                   currentKeywords[i] \in Range(cachedKeywords) }
      partial == { <<i, j>> \in (DOMAIN currentKeywords) \X (DOMAIN cachedKeywords) :
                     \/ Includes(currentKeywords[i], cachedKeywords[j])
                     \/ Includes(cachedKeywords[j], currentKeywords[i]) }
  IN 2 * Cardinality(exact) + Cardinality(partial)

\* Buffer.from(query.toLowerCase()).toString('base64').slice(0, 10): ten
\* base64 characters, fixed by the first eight characters of the query
QueryHash(query) ==
  CASE query \in {"find pets", "Find Pet"} -> "find pet"
    [] query = "list orders" -> "list ord"
    [] query = "find available pets" -> "find ava"
    [] OTHER -> ""

\* the userIds of the model; NoUser is a call without userId
NoUser == ""
Users == {"user1234a", "user1234b"}

\* userId.slice(0, 8)
Slice8(userId) == IF userId \in {"user1234a", "user1234b"} THEN "user1234" ELSE userId

\* generateCacheKey at Date.now() = t
generateCacheKey(projectId, query, userId, t) ==
  << projectId, QueryHash(query), IF userId # NoUser THEN Slice8(userId) ELSE "", t >>

\* NodeCache.set on a cache kept as the sequence of its [key, value] in
\* key order (Object.keys: a key that is set again keeps its place)
CacheSet(c, key, value) ==
  IF \E i \in DOMAIN c : c[i].key = key
  THEN [ i \in DOMAIN c |-> IF c[i].key = key THEN [key |-> key, value |-> value] ELSE c[i] ]
  ELSE Append(c, [key |-> key, value |-> value])

\* NodeCache.get: the values under the key (none or one)
CacheGet(c, key) == { c[i].value : i \in { j \in DOMAIN c : c[j].key = key } }

\* NodeCache.del, and what the TTL does to a key
CacheDel(c, key) ==
  LET other(e) == e.key # key
  IN SelectSeq(c, other)

\* addToUserSession pushing the new entry at the end of the list
addToUserSessionAtEnd(sessionData, cacheKey, query, t) ==
  Slice(sessionData \o << [cacheKey |-> cacheKey, query |-> query, timestamp |-> t] >>, 20)

\* addToUserSession on the user's list
addToUserSession(sessionData, cacheKey, query, t) ==
  Slice(<< [cacheKey |-> cacheKey, query |-> query, timestamp |-> t] >> \o sessionData, 20)

\* getUserSessionData: the cached data of the session's entries that are
\* still in the response cache
getUserSessionData(c, sessionData) ==
  LET live(session) == CacheGet(c, session.cacheKey) # {}
      kept == SelectSeq(sessionData, live)
  IN [ i \in DOMAIN kept |-> CHOOSE d \in CacheGet(c, kept[i].cacheKey) : TRUE ]

\* the comparator of findRelevantContext's sort: a before b
Before(a, b, currentQuery) ==
  LET sa == calculateRelevanceScore(a.query, currentQuery)
      sb == calculateRelevanceScore(b.query, currentQuery)
  IN IF sa # sb THEN sa > sb ELSE a.timestamp > b.timestamp

\* Array.prototype.sort with that comparator (stable): x, the last element,
\* goes behind the last element it is not before
RECURSIVE SortByRelevance(_, _)
SortByRelevance(seq, currentQuery) ==
  IF seq = << >> THEN << >>
  ELSE LET sorted == SortByRelevance(SubSeq(seq, 1, Len(seq) - 1), currentQuery)
           x == seq[Len(seq)]
           notBefore == { i \in DOMAIN sorted : ~Before(x, sorted[i], currentQuery) }
           m == IF notBefore = {} THEN 0 ELSE Max(notBefore)
       IN SubSeq(sorted, 1, m) \o << x >> \o SubSeq(sorted, m + 1, Len(sorted))

\* the loop over cache.keys() of findRelevantContext
RECURSIVE ProjectMatches(_, _, _, _)
ProjectMatches(c, relevantData, projectId, keywords) ==
  IF c = << >> THEN relevantData
  ELSE LET data == Head(c).value
           push == /\ data.projectId = projectId
                   /\ hasRelevantKeywords(data.query, keywords)
                   /\ ~\E i \in DOMAIN relevantData :
                         relevantData[i].timestamp = data.timestamp
       IN ProjectMatches(Tail(c), IF push THEN Append(relevantData, data) ELSE relevantData,
                         projectId, keywords)

\* findRelevantContext
findRelevantContext(c, sessions, projectId, currentQuery, userId) ==
  LET keywords == extractKeywords(currentQuery)
      relevant(data) == hasRelevantKeywords(data.query, keywords)
      fromSession == IF userId # NoUser
                     THEN SelectSeq(getUserSessionData(c, sessions[userId]), relevant)
                     ELSE << >>
      relevantData == ProjectMatches(c, fromSession, projectId, keywords)
  IN Slice(SortByRelevance(relevantData, currentQuery), 5)

\* storeResponseData at Date.now() = t: [cache, sessions, cacheKey]
storeResponseData(c, sessions, projectId, query, data, userId, t) ==
  LET cacheKey == generateCacheKey(projectId, query, userId, t)
      cachedData == [projectId |-> projectId, query |-> query, data |-> data,
                     timestamp |-> t]
  IN [cache |-> CacheSet(c, cacheKey, cachedData),
      sessions |-> IF userId # NoUser
                   THEN [sessions EXCEPT ![userId] =
                           addToUserSession(sessions[userId], cacheKey, query, t)]
                   ELSE sessions,
      cacheKey |-> cacheKey]

\* generateHistoryKey
generateHistoryKey(projectId, userId) == << projectId, userId >>

\* CacheService.storeChatHistory on the histories
storeChatHistory(histories, projectId, historyItem, userId) ==
  LET historyKey == generateHistoryKey(projectId, userId)
  IN [histories EXCEPT ![historyKey] = Slice(<< historyItem >> \o histories[historyKey], 100)]

\* ChatService.storeChatHistory's historyItem at Date.now() = t
HistoryItem(query, userId, t) == [query |-> query, userId |-> userId, timestamp |-> t]

NoContextFor == [projectId |-> 0, query |-> "", userId |-> NoUser]

CacheIdle ==
  /\ cache = << >>
  /\ userSessionCache = [u \in Users |-> << >>]
  /\ now = 1
  /\ stored = 0
  /\ context = << >>
  /\ contextFor = NoContextFor
  /\ chatHistoryCache = [k \in Projects \X (Users \cup {NoUser}) |-> << >>]
  /\ cleared = [projectId |-> 0, userId |-> NoUser, calls |-> 0]

----------------------------------------------------------------------------
(* PlannerService: resolveIntent *)

\* Signals are held in thousandths (1000 is 1.0) and scores in
\* ten-thousandths (2000 is 0.2), so the weights 0.4, 0.3, 0.3 are 4, 3, 3
\* and the boost 0.1 is 1000.  On the inputs of IntentInputs every product
\* and sum below equals the double the code computes, comparison by
\* comparison.

\* generateQueryEmbedding returned null
NoEmbedding == << >>

\* calculateCosineSimilarity, in thousandths; Math.sqrt is taken of the
\* squared lengths that occur, all of them perfect squares
calculateCosineSimilarity(vector1, vector2) ==
  IF Len(vector1) # Len(vector2) THEN 0
  ELSE LET n == Len(vector1)
           dotProduct[i \in 0..n] ==
             IF i = 0 THEN 0 ELSE dotProduct[i - 1] + vector1[i] * vector2[i]
           norm1[i \in 0..n] ==
             IF i = 0 THEN 0 ELSE norm1[i - 1] + vector1[i] * vector1[i]
           norm2[i \in 0..n] ==
             IF i = 0 THEN 0 ELSE norm2[i - 1] + vector2[i] * vector2[i]
           sqrt(x) == CHOOSE r \in 0..x : r * r = x
           magnitude == sqrt(norm1[n]) * sqrt(norm2[n])
       IN IF magnitude = 0 THEN 0 ELSE (dotProduct[n] * 1000) \div magnitude

\* calculateKeywordSimilarity, in thousandths
calculateKeywordSimilarity(query, keywords) ==
  LET queryWords == LowerWords(query)
      toLowerCase(k) == IF k = "Pet" THEN "pet" ELSE k
      keywordMatches ==
        { i \in DOMAIN keywords :
            \E w \in DOMAIN queryWords :
              \/ Includes(queryWords[w], toLowerCase(keywords[i]))
              \/ Includes(toLowerCase(keywords[i]), queryWords[w]) }
  IN IF Len(keywords) > 0
     THEN (Cardinality(keywordMatches) * 1000) \div Len(keywords)
     ELSE 0

\* calculateIntentSimilarity, in thousandths.  Query and patterns are held
\* as their lower-cased words; between the strings drawn one includes the
\* other exactly when its words occur in it side by side.
calculateIntentSimilarity(query, intentPatterns) ==
  LET queryWords == LowerWords(query)
      includes(a, b) ==
        \E k \in 0..(Len(a) - Len(b)) : \A i \in 1..Len(b) : a[k + i] = b[i]
      patternScore(pattern) ==
        LET patternWords == LowerWords(pattern)
            substring == IF \/ includes(queryWords, patternWords)
                            \/ includes(patternWords, queryWords)
                         THEN 900 ELSE 0
            common == Cardinality({ w \in DOMAIN queryWords :
                                      queryWords[w] \in Range(patternWords) })
            longest == Max({Len(queryWords), Len(patternWords)})
            overlap == IF common > 0 THEN (common * 700) \div longest ELSE 0
        IN Max({substring, overlap})
  IN Max({0} \cup { patternScore(intentPatterns[p]) : p \in DOMAIN intentPatterns })

\* the score resolveIntent gives one endpoint, in ten-thousandths
matchScore(userQuery, queryEmbedding, endpoint) ==
  LET length(text) ==
        CASE text = "Lists pets" -> 10
          [] text = "Returns every pet of the store" -> 30
          [] OTHER -> 0
      semantic ==
        IF queryEmbedding # NoEmbedding /\ Len(endpoint.embeddingVector) > 0
        THEN calculateCosineSimilarity(queryEmbedding, endpoint.embeddingVector) * 4
        ELSE 0
      keyword ==
        IF Len(endpoint.keywords) > 0
        THEN calculateKeywordSimilarity(userQuery, endpoint.keywords) * 3
        ELSE 0
      intent ==
        IF Len(endpoint.intentPatterns) > 0
        THEN calculateIntentSimilarity(userQuery, endpoint.intentPatterns) * 3
        ELSE 0
      boost ==
        IF endpoint.promptText # "" /\ length(endpoint.promptText) > 20
        THEN 1000 ELSE 0
  IN semantic + keyword + intent + boost

\* resolveIntent with the fall-open branch left out
resolveIntentNoFallOpen(userQuery, queryEmbedding, endpoints) ==
  LET scoredEndpoints ==
        [ i \in DOMAIN endpoints |->
            endpoints[i] @@
              ("matchScore" :> matchScore(userQuery, queryEmbedding, endpoints[i])) ]
      above(ep) == ep.matchScore > 2000
  IN SelectSeq(scoredEndpoints, above)

\* resolveIntent: each endpoint with its matchScore added, those above the
\* threshold, in the order Array.prototype.sort (stable) leaves them; the
\* catalog as it is, its endpoints without a matchScore, when none is above
resolveIntent(userQuery, queryEmbedding, endpoints) ==
  LET scoredEndpoints ==
        [ i \in DOMAIN endpoints |->
            endpoints[i] @@
              ("matchScore" :> matchScore(userQuery, queryEmbedding, endpoints[i])) ]
      above(ep) == ep.matchScore > 2000
      filtered == SelectSeq(scoredEndpoints, above)
      n == Len(filtered)
      rank(i) ==
        Cardinality({ j \in 1..n :
                        \/ filtered[j].matchScore > filtered[i].matchScore
                        \/ /\ filtered[j].matchScore = filtered[i].matchScore
                           /\ j < i })
      sortedEndpoints ==
        [ k \in 1..n |-> filtered[CHOOSE i \in 1..n : rank(i) = k - 1] ]
  IN IF Len(sortedEndpoints) = 0 THEN endpoints ELSE sortedEndpoints

----------------------------------------------------------------------------
(* JSONPathUtil *)

\* a JSON value: its type, its text when it is a primitive, its members
\* <<name, value>> when it is an object
Json(kind, text, fields) == [kind |-> kind, text |-> text, fields |-> fields]

JsonNull == Json("null", "", {})
JsonUndefined == Json("undefined", "", {})

\* evaluateJSONPath with resolvePath and parsePath, on the paths "$",
\* "$.a" and "$.a.b"
evaluateJSONPath(path, data) ==
  LET falsy(v) == \/ v.kind \in {"null", "undefined"}
                  \/ v.kind = "number" /\ v.text = "0"
                  \/ v.kind = "boolean" /\ v.text = "false"
                  \/ v.kind = "string" /\ v.text = ""
      \* path.replace(/^\$\.?/, '')
      cleanPath == CASE path = "$" -> ""
                     [] path = "$.a" -> "a"
                     [] path = "$.a.b" -> "a.b"
                     [] OTHER -> path
      \* parsePath: path.split('.'), every segment a property
      parts == CASE cleanPath = "a" -> << "a" >>
                 [] cleanPath = "a.b" -> << "a", "b" >>
                 [] OTHER -> << cleanPath >>
      \* current[part.value]
      member(v, name) ==
        LET hits == { f \in v.fields : f[1] = name }
        IN IF hits = {} THEN JsonUndefined ELSE (CHOOSE f \in hits : TRUE)[2]
      current[i \in 0..Len(parts)] ==
        IF i = 0 THEN data
        ELSE IF current[i - 1].kind \in {"null", "undefined"} THEN JsonNull
        ELSE member(current[i - 1], parts[i])
      resolvePath == IF falsy(data) \/ data.kind # "object" THEN JsonNull
                     ELSE current[Len(parts)]
  IN IF path = "" \/ falsy(data) THEN JsonNull
     ELSE IF cleanPath = "" \/ cleanPath = "$" THEN data
     ELSE resolvePath

NoJsonArgs == [path |-> "", data |-> JsonUndefined]
\* evaluateJSONPath has not returned yet
NoJsonResult == Json("pending", "", {})
NoIntentInput == [userQuery |-> "", queryEmbedding |-> NoEmbedding, endpoints |-> << >>]

ResolverIdle ==
  /\ intentInput = NoIntentInput
  /\ matchedEndpoints = << >>
  /\ previousMatch = << >>
  /\ resolveCalls = 0
  /\ jsonArgs = NoJsonArgs
  /\ jsonResult = NoJsonResult

----------------------------------------------------------------------------
(* EventEmitter (frontend utility), for one event name *)

\* on(): push; a listener is [id, once, throws], where once marks the
\* onceWrapper of once() and throws a listener that raises when called
on(list, listener) == Append(list, listener)

\* off(event, listener): indexOf and splice (each registration of the model
\* is a function of its own, so at most one element matches)
off(list, id) ==
  LET other(l) == l.id # id
  IN SelectSeq(list, other)

\* emit's this.events[event].forEach(...): the length is read once, index k
\* is visited when the array still has it, and the callback of a once()
\* listener calls the listener and then off(), unless the listener threw
RECURSIVE forEach(_, _, _, _)
forEach(list, k, len, invoked) ==
  IF k > len THEN [events |-> list, invoked |-> invoked]
  ELSE IF k > Len(list) THEN forEach(list, k + 1, len, invoked)
  ELSE LET l == list[k]
           after == IF l.once /\ ~l.throws THEN off(list, l.id) ELSE list
       IN forEach(after, k + 1, len, Append(invoked, l.id))

\* emit(event): [events, invoked] after the call
emit(list) == forEach(list, 1, Len(list), << >>)

EmitterIdle ==
  /\ events = << >>
  /\ registrations = 0
  /\ emitLog = << >>

----------------------------------------------------------------------------
(* ChatService *)

\* `const maxRetries = 2` of processQueryWithRetry and
\* processQueryWithRetryStream
maxRetries == 2

\* the project the modelled requests are for
RequestProject == 1

\* a project with no endpoint rows
EmptyProject == 3

\* the ChatRequests of the model; `message` is any string, the empty one
\* included
Requests ==
  { [projectId |-> RequestProject, message |-> "find pets", userId |-> "user1234a",
     userContext |-> uc] : uc \in UserContexts }
  \cup { [projectId |-> p, message |-> "find pets", userId |-> "user1234a",
          userContext |-> uc] :
            p \in {2, EmptyProject},
            uc \in { c \in UserContexts : c.authType = "bearer" } }
  \cup { [projectId |-> RequestProject, message |-> "", userId |-> "user1234a",
          userContext |-> uc] :
            uc \in { c \in UserContexts : c.authType = "bearer" } }

\* what analyzeErrorWithLLM can return: the parsed reply, or
\* shouldRetry = false when the call or the parse fails.  correctedQuery ""
\* stands for null or a missing key.
Analyses ==
  { [shouldRetry |-> TRUE, correctedQuery |-> "find available pets"],
    [shouldRetry |-> TRUE, correctedQuery |-> ""],
    [shouldRetry |-> FALSE, correctedQuery |-> "find available pets"],
    [shouldRetry |-> FALSE, correctedQuery |-> ""] }

NoAnalysis == [shouldRetry |-> FALSE, correctedQuery |-> "not asked"]

\* a retry on shouldRetry alone
ShouldRetryOnly(a) == a.shouldRetry

\* errorAnalysis.shouldRetry && errorAnalysis.correctedQuery
WantsRetry(a) == a.shouldRetry /\ a.correctedQuery # ""

EmptyDelta ==
  [missingParameters |-> << >>, parameterCorrections |-> << >>,
   errorMessages |-> << >>]

\* what extractMetadataUpdates can return ({} on a failed call or parse)
MetadataUpdates ==
  { EmptyDelta,
    [EmptyDelta EXCEPT !.missingParameters =
       << [endpointPath |-> "/pet", method |-> "POST",
           parameterName |-> "photoUrls", parameterType |-> "array",
           isRequired |-> TRUE, location |-> "body"] >>],
    [EmptyDelta EXCEPT !.errorMessages =
       << [endpointPath |-> "/pet", method |-> "POST", statusCode |-> 400,
           message |-> "photoUrls required", suggestion |-> "add photoUrls"] >>] }

\* the store the requests start from
CatalogParams ==
  { Param(1, 1, "status", "query", FALSE),
    Param(2, 2, "name", "body", TRUE),
    Param(3, 1, "Authorization", "header", FALSE) }

\* a call of processQueryWithRetry[Stream]; site: where it awaits the
\* recursive call ("try": inside its try block, "catch": inside its catch)
Frame(retryCount, message) ==
  [retryCount |-> retryCount, message |-> message, site |-> "none"]

Top == stack[Len(stack)]

\* the recursive call with correctedRequest
PushRetry(site, correctedQuery) ==
  Append([stack EXCEPT ![Len(stack)].site = site],
         Frame(Top.retryCount + 1, correctedQuery))

NoResponse ==
  [success |-> FALSE, returned |-> FALSE, data |-> NoData, planSteps |-> 0,
   stepsExecuted |-> 0, retryCount |-> 0 - 1, earlyTermination |-> FALSE,
   finalQuery |-> ""]

\* formatSuccessResponse reporting the plan's length as stepsExecuted
formatSuccessResponsePlanLength(finalResult, originalQuery, planSteps, executedSteps, retryCount, executionResult) ==
  [success |-> TRUE, returned |-> TRUE, data |-> finalResult,
   planSteps |-> planSteps, stepsExecuted |-> planSteps,
   retryCount |-> retryCount,
   earlyTermination |-> executionResult.earlyTermination,
   finalQuery |-> originalQuery]

\* formatSuccessResponse (both of its branches build the same fields)
formatSuccessResponse(finalResult, originalQuery, planSteps, executedSteps, retryCount, executionResult) ==
  [success |-> TRUE, returned |-> TRUE, data |-> finalResult,
   planSteps |-> planSteps, stepsExecuted |-> executedSteps,
   retryCount |-> retryCount,
   earlyTermination |-> executionResult.earlyTermination,
   finalQuery |-> originalQuery]

\* the failure response of lines 447-456 (no retryCount in it)
FailureResponse(planSteps, executedSteps) ==
  [NoResponse EXCEPT !.returned = TRUE, !.planSteps = planSteps,
                     !.stepsExecuted = executedSteps]

\* a ChatStreamUpdate; progress is the fraction <<num, den>>, <<0 - 1, 1>>
\* when the update has none
Update(type, num, den, step) ==
  [type |-> type, progress |-> <<num, den>>, step |-> step]

NoProgress == 0 - 1

\* the step_completed loop of lines 235-244
RECURSIVE StepCompletedUpdates(_, _)
StepCompletedUpdates(n, upTo) ==
  IF upTo = 0 THEN << >>
  ELSE Append(StepCompletedUpdates(n, upTo - 1),
              Update("step_completed", 40 * n + upTo * 40, n, upTo))

\* processQuery up to the call of processQueryWithRetry
ProcessQuery ==
  /\ pc = "idle"
  /\ \E req \in Requests :
       /\ request' = req
       /\ stack' = << Frame(0, req.message) >>
       /\ context' = findRelevantContext(cache, userSessionCache, req.projectId,
                                         req.message, req.userId)
       /\ contextFor' = [projectId |-> req.projectId, query |-> req.message,
                         userId |-> req.userId]
  /\ mode' = "sync"
  /\ pc' = "plan"
  /\ UNCHANGED <<plan, analysis, analystCalls, healed, response, updates>>
  /\ UNCHANGED <<storeVars, healVars, plannerVars, execVars>>
  /\ UNCHANGED <<cache, userSessionCache, now, stored>>
  /\ UNCHANGED <<chatHistoryCache, cleared>>
  /\ UNCHANGED <<cancelled, intentVars, jsonVars, emitterVars>>

\* processQueryStream up to the call of processQueryWithRetryStream
ProcessQueryStream ==
  /\ pc = "idle"
  /\ \E req \in Requests :
       LET relevantContext == findRelevantContext(cache, userSessionCache,
                                req.projectId, req.message, req.userId)
       IN /\ request' = req
          /\ stack' = << Frame(0, req.message) >>
          /\ context' = relevantContext
          /\ contextFor' = [projectId |-> req.projectId, query |-> req.message,
                            userId |-> req.userId]
          /\ updates' = updates \o << Update("planning", 10, 1, 0) >>
                          \o (IF Len(relevantContext) > 0
                              THEN << Update("planning", 20, 1, 0) >> ELSE << >>)
  /\ mode' = "stream"
  /\ pc' = "plan"
  /\ UNCHANGED <<plan, analysis, analystCalls, healed, response>>
  /\ UNCHANGED <<storeVars, healVars, plannerVars, execVars>>
  /\ UNCHANGED <<cache, userSessionCache, now, stored>>
  /\ UNCHANGED <<chatHistoryCache, cleared>>
  /\ UNCHANGED <<cancelled, intentVars, jsonVars, emitterVars>>

\* plannerService.createPlan as called at the head of a pass (line 375,
\* line 216): loadApiMetadata, callLLM, validatePlan
CreatePlan ==
  /\ pc = "plan"
  /\ \E reply \in PlanReplies :
       LET metadata == loadApiMetadata(metadataCache, reqParams, request.projectId)
           v == validatePlan(reply, metadata)
           before == IF mode = "stream"
                     THEN Append(updates, Update("planning", 30, 1, 0))
                     ELSE updates
       IN /\ metadataCache' = [metadataCache EXCEPT ![request.projectId] = metadata]
          /\ usedMetadata' = metadata
          /\ llmReply' = IF reply.kind = "plan"
                         THEN (IF reply.steps = << >> THEN "empty_steps" ELSE "steps")
                         ELSE reply.kind
          /\ IF v.ok
             THEN /\ plan' = v.steps
                  /\ pc' = "exec"
                  /\ updates' = IF mode = "stream"
                                THEN Append(before, Update("planning", 40, 1, 0))
                                ELSE updates
             ELSE /\ plan' = NoPlan
                  /\ pc' = IF mode = "stream" THEN "done" ELSE "catch"
                  /\ updates' = IF mode = "stream"
                                THEN Append(before, Update("error", NoProgress, 1, 0))
                                ELSE updates
  /\ plannerCalls' = plannerCalls + 1
  /\ analysis' = NoAnalysis
  /\ stepIdx' = 0
  /\ stepResults' = << >>
  /\ sentSteps' = {}
  /\ judgeReply' = "none"
  /\ execResult' = NoResult
  /\ pendingReq' = NoReq
  /\ lastReq' = NoReq
  /\ UNCHANGED <<mode, request, stack, analystCalls, healed, response>>
  /\ UNCHANGED <<storeVars, healVars>>
  /\ UNCHANGED cacheVars
  /\ UNCHANGED <<cancelled, intentVars, jsonVars, emitterVars>>

\* processQueryWithRetry, lines 390-409, and processQuery's return
ReturnSuccess ==
  /\ pc = "executed"
  /\ mode = "sync"
  /\ execResult.success
  /\ response' = formatSuccessResponse(execResult.finalResult, Top.message,
                                       Len(plan), Len(execResult.steps),
                                       Top.retryCount, execResult)
  /\ pc' = "done"
  /\ UNCHANGED <<mode, request, stack, plan, analysis, analystCalls, healed, updates>>
  /\ UNCHANGED <<storeVars, healVars, plannerVars, execVars>>
  /\ LET r == storeResponseData(cache, userSessionCache, request.projectId,
                                request.message, execResult.finalResult,
                                request.userId, now)
     IN IF Truthy(execResult.finalResult)
        THEN /\ cache' = r.cache
             /\ userSessionCache' = r.sessions
             /\ stored' = stored + 1
        ELSE UNCHANGED <<cache, userSessionCache, stored>>
  /\ UNCHANGED <<now, context, contextFor>>
  /\ UNCHANGED <<chatHistoryCache, cleared>>
  /\ UNCHANGED <<cancelled, intentVars, jsonVars, emitterVars>>

\* processQueryWithRetry, lines 411-442: the analyst after a failed
\* execution
AnalyzeExecutionError ==
  /\ pc = "executed"
  /\ mode = "sync"
  /\ ~execResult.success
  /\ Top.retryCount < maxRetries
  /\ \E a \in Analyses :
       /\ analysis' = a
       /\ IF WantsRetry(a)
          THEN pc' = "heal" /\ UNCHANGED response
          ELSE /\ pc' = "done"
               /\ response' = FailureResponse(Len(plan), Len(execResult.steps))
  /\ analystCalls' = analystCalls + 1
  /\ UNCHANGED <<mode, request, stack, plan, healed, updates>>
  /\ UNCHANGED <<storeVars, healVars, plannerVars, execVars>>
  /\ UNCHANGED cacheVars
  /\ UNCHANGED <<cancelled, intentVars, jsonVars, emitterVars>>

\* a last pass that never hands its failure back
ReturnFailureHangs ==
  /\ pc = "executed"
  /\ mode = "sync"
  /\ ~execResult.success
  /\ ~(Top.retryCount < maxRetries)
  /\ UNCHANGED vars

\* processQueryWithRetry, lines 444-456, with the budget used up
ReturnFailure ==
  /\ pc = "executed"
  /\ mode = "sync"
  /\ ~execResult.success
  /\ ~(Top.retryCount < maxRetries)
  /\ response' = FailureResponse(Len(plan), Len(execResult.steps))
  /\ pc' = "done"
  /\ UNCHANGED <<mode, request, stack, plan, analysis, analystCalls, healed, updates>>
  /\ UNCHANGED <<storeVars, healVars, plannerVars, execVars>>
  /\ UNCHANGED cacheVars
  /\ UNCHANGED <<cancelled, intentVars, jsonVars, emitterVars>>

\* updateMetadataFromError followed by the failure return of lines 444-456
\* in place of the recursive call
UpdateMetadataAndReturn ==
  /\ pc = "heal"
  /\ \E mu \in MetadataUpdates :
       \E st \in updateMetadataFromError(reqParams, respMsgs, request.projectId, mu) :
         /\ reqParams' = st.params
         /\ respMsgs' = st.msgs
  /\ healed' = TRUE
  /\ response' = FailureResponse(Len(plan), Len(execResult.steps))
  /\ pc' = "done"
  /\ UNCHANGED <<mode, request, stack, plan, analysis, analystCalls, updates>>
  /\ UNCHANGED <<healVars, plannerVars, execVars>>
  /\ UNCHANGED cacheVars
  /\ UNCHANGED <<cancelled, intentVars, jsonVars, emitterVars>>

\* updateMetadataFromError (lines 427-432) and the recursive call of
\* line 440, which is inside the try block
UpdateMetadataAndRetry ==
  /\ pc = "heal"
  /\ \E mu \in MetadataUpdates :
       \E st \in updateMetadataFromError(reqParams, respMsgs, request.projectId, mu) :
         /\ reqParams' = st.params
         /\ respMsgs' = st.msgs
  /\ healed' = TRUE
  /\ stack' = PushRetry("try", analysis.correctedQuery)
  /\ pc' = "plan"
  /\ UNCHANGED <<mode, request, plan, analysis, analystCalls, response, updates>>
  /\ UNCHANGED <<healVars, plannerVars, execVars>>
  /\ UNCHANGED cacheVars
  /\ UNCHANGED <<cancelled, intentVars, jsonVars, emitterVars>>

\* processQueryWithRetry's catch, lines 459-482, while retries are left
CatchAnalyze ==
  /\ pc = "catch"
  /\ Top.retryCount < maxRetries
  /\ \E a \in Analyses :
       /\ analysis' = a
       /\ IF WantsRetry(a)
          THEN /\ stack' = PushRetry("catch", a.correctedQuery)
               /\ pc' = "plan"
          ELSE /\ pc' = "unwind"
               /\ UNCHANGED stack
  /\ analystCalls' = analystCalls + 1
  /\ UNCHANGED <<mode, request, plan, healed, response, updates>>
  /\ UNCHANGED <<storeVars, healVars, plannerVars, execVars>>
  /\ UNCHANGED cacheVars
  /\ UNCHANGED <<cancelled, intentVars, jsonVars, emitterVars>>

\* processQueryWithRetry's catch with the budget used up: line 485
CatchRethrow ==
  /\ pc = "catch"
  /\ ~(Top.retryCount < maxRetries)
  /\ pc' = "unwind"
  /\ UNCHANGED <<mode, request, stack, plan, analysis, analystCalls, healed,
                 response, updates>>
  /\ UNCHANGED <<storeVars, healVars, plannerVars, execVars>>
  /\ UNCHANGED cacheVars
  /\ UNCHANGED <<cancelled, intentVars, jsonVars, emitterVars>>

\* `throw error` leaves the call: into the caller's catch when the call was
\* awaited inside its try block (line 440), through the caller when it was
\* awaited inside its catch (line 480), into processQuery's catch
\* (lines 124-138) from the outermost call
Unwind ==
  /\ pc = "unwind"
  /\ LET rest == SubSeq(stack, 1, Len(stack) - 1)
     IN IF rest = << >>
        THEN /\ response' = FailureResponse(0, 0)
             /\ pc' = "done"
             /\ UNCHANGED stack
        ELSE /\ stack' = rest
             /\ pc' = IF rest[Len(rest)].site = "try" THEN "catch" ELSE "unwind"
             /\ UNCHANGED response
  /\ UNCHANGED <<mode, request, plan, analysis, analystCalls, healed, updates>>
  /\ UNCHANGED <<storeVars, healVars, plannerVars, execVars>>
  /\ UNCHANGED cacheVars
  /\ UNCHANGED <<cancelled, intentVars, jsonVars, emitterVars>>

\* processQueryWithRetryStream, lines 234-298: executePlan succeeded
StreamCompleted ==
  /\ pc = "executed"
  /\ mode = "stream"
  /\ execResult.success
  /\ response' = formatSuccessResponse(execResult.finalResult, Top.message,
                                       Len(plan), Len(execResult.steps),
                                       Top.retryCount, execResult)
  /\ updates' = updates \o StepCompletedUpdates(Len(plan), Len(plan))
                  \o << Update("formatting", 85, 1, 0),
                        Update("completed", 100, 1, 0) >>
  /\ pc' = "done"
  /\ UNCHANGED <<mode, request, stack, plan, analysis, analystCalls, healed>>
  /\ UNCHANGED <<storeVars, healVars, plannerVars, execVars>>
  /\ LET r == storeResponseData(cache, userSessionCache, request.projectId,
                                Top.message, execResult.finalResult,
                                request.userId, now)
     IN IF Truthy(execResult.finalResult)
        THEN /\ cache' = r.cache
             /\ userSessionCache' = r.sessions
             /\ stored' = stored + 1
        ELSE UNCHANGED <<cache, userSessionCache, stored>>
  /\ chatHistoryCache' = storeChatHistory(chatHistoryCache, request.projectId,
                            HistoryItem(Top.message, request.userId, now),
                            request.userId)
  /\ UNCHANGED <<now, context, contextFor, cleared>>
  /\ UNCHANGED <<cancelled, intentVars, jsonVars, emitterVars>>

\* processQueryWithRetryStream, lines 234-244 and 299-347: the analyst
\* after a failed execution; the retry is the recursive call of line 329
StreamAnalyzeExecutionError ==
  /\ pc = "executed"
  /\ mode = "stream"
  /\ ~execResult.success
  /\ Top.retryCount < maxRetries
  /\ \E a \in Analyses :
       LET sofar == updates \o StepCompletedUpdates(Len(plan), Len(plan))
                      \o << Update("error", 60, 1, 0) >>
       IN /\ analysis' = a
          /\ IF WantsRetry(a)
             THEN /\ updates' = Append(sofar, Update("planning", 20, 1, 0))
                  /\ stack' = PushRetry("try", a.correctedQuery)
                  /\ pc' = "plan"
             ELSE /\ updates' = Append(sofar, Update("error", NoProgress, 1, 0))
                  /\ pc' = "done"
                  /\ UNCHANGED stack
  /\ analystCalls' = analystCalls + 1
  /\ UNCHANGED <<mode, request, plan, healed, response>>
  /\ UNCHANGED <<storeVars, healVars, plannerVars, execVars>>
  /\ UNCHANGED cacheVars
  /\ UNCHANGED <<cancelled, intentVars, jsonVars, emitterVars>>

\* StreamFailed without its closing error update
StreamFailedSilently ==
  /\ pc = "executed"
  /\ mode = "stream"
  /\ ~execResult.success
  /\ ~(Top.retryCount < maxRetries)
  /\ updates' = updates \o StepCompletedUpdates(Len(plan), Len(plan))
  /\ pc' = "done"
  /\ UNCHANGED <<mode, request, stack, plan, analysis, analystCalls, healed, response>>
  /\ UNCHANGED <<storeVars, healVars, plannerVars, execVars>>
  /\ UNCHANGED cacheVars
  /\ UNCHANGED <<cancelled, intentVars, jsonVars, emitterVars>>

\* processQueryWithRetryStream, lines 340-347, with the budget used up
StreamFailed ==
  /\ pc = "executed"
  /\ mode = "stream"
  /\ ~execResult.success
  /\ ~(Top.retryCount < maxRetries)
  /\ updates' = updates \o StepCompletedUpdates(Len(plan), Len(plan))
                  \o << Update("error", NoProgress, 1, 0) >>
  /\ pc' = "done"
  /\ UNCHANGED <<mode, request, stack, plan, analysis, analystCalls, healed, response>>
  /\ UNCHANGED <<storeVars, healVars, plannerVars, execVars>>
  /\ UNCHANGED cacheVars
  /\ UNCHANGED <<cancelled, intentVars, jsonVars, emitterVars>>

HealIdle ==
  /\ healDelta = EmptyDelta
  /\ healRound = 0
  /\ healSnap = [params |-> {}, msgs |-> {}]
  /\ healCount = 0
  /\ healers = << >>

ChatIdle ==
  /\ mode = "idle"
  /\ pc = "idle"
  /\ request = CHOOSE r \in Requests : TRUE
  /\ stack = << >>
  /\ plan = NoPlan
  /\ analysis = NoAnalysis
  /\ analystCalls = 0
  /\ healed = FALSE
  /\ response = NoResponse
  /\ updates = << >>
  /\ metadataCache = [p \in Projects \cup {EmptyProject} |-> NoMeta]
  /\ usedMetadata = NoMeta
  /\ plannerCalls = 0
  /\ llmReply = "none"
  /\ stepIdx = 0
  /\ stepResults = << >>
  /\ pendingReq = NoReq
  /\ lastReq = NoReq
  /\ sentSteps = {}
  /\ execResult = NoResult
  /\ judgeReply = "none"
  /\ cancelled = FALSE

Init ==
  /\ reqParams = CatalogParams
  /\ respMsgs = {}
  /\ HealIdle
  /\ ChatIdle
  /\ CacheIdle
  /\ EmitterIdle
  /\ ResolverIdle

Next ==
  \/ ProcessQuery
  \/ ProcessQueryStream
  \/ CreatePlan
  \/ ExecuteStep
  \/ HttpRetry
  \/ Judge
  \/ ReturnSuccess
  \/ AnalyzeExecutionError
  \/ ReturnFailure
  \/ UpdateMetadataAndRetry
  \/ CatchAnalyze
  \/ CatchRethrow
  \/ Unwind
  \/ StreamCompleted
  \/ StreamAnalyzeExecutionError
  \/ StreamFailed

Spec == Init /\ [][Next]_vars

\* the requests and plans of SpecLive: a bearer caller, and a plan that
\* fails validation, a one-step plan or a two-step plan with a reference
LiveInputs ==
  /\ request.userContext.authType = "bearer"
  /\ plan \in { NoPlan, << GetPets >>,
               << GetPets, PlanStep("POST", "/pet", With1("name", Ref(0, "id"))) >> }

NextLive ==
  \/ ProcessQuery /\ LiveInputs'
  \/ ProcessQueryStream /\ LiveInputs'
  \/ CreatePlan /\ LiveInputs'
  \/ ExecuteStep /\ LiveInputs'
  \/ HttpRetry /\ LiveInputs'
  \/ Judge /\ LiveInputs'
  \/ ReturnSuccess /\ LiveInputs'
  \/ AnalyzeExecutionError /\ LiveInputs'
  \/ ReturnFailure /\ LiveInputs'
  \/ UpdateMetadataAndRetry /\ LiveInputs'
  \/ CatchAnalyze /\ LiveInputs'
  \/ CatchRethrow /\ LiveInputs'
  \/ Unwind /\ LiveInputs'
  \/ StreamCompleted /\ LiveInputs'
  \/ StreamAnalyzeExecutionError /\ LiveInputs'
  \/ StreamFailed /\ LiveInputs'

\* every call the request waits for returns or fails: no step that can be
\* taken is put off for ever
SpecLive == Init /\ [][NextLive]_vars /\ WF_vars(NextLive)

----------------------------------------------------------------------------
(* processQueryStream with a caller that gives up *)

\* the caller goes away (the request's client disconnects) while the
\* request is in progress; processQueryStream takes no signal and no code
\* of the service reads one
Cancel ==
  /\ mode = "stream"
  /\ pc \notin {"idle", "done"}
  /\ ~cancelled
  /\ cancelled' = TRUE
  /\ UNCHANGED <<storeVars, healVars, plannerVars, chatVars, execVars, cacheVars>>
  /\ UNCHANGED <<intentVars, jsonVars, emitterVars>>

NextCancel ==
  \/ Cancel
  \/ ProcessQueryStream /\ LiveInputs'
  \/ CreatePlan /\ LiveInputs'
  \/ ExecuteStep /\ LiveInputs'
  \/ HttpRetry /\ LiveInputs'
  \/ Judge /\ LiveInputs'
  \/ StreamCompleted /\ LiveInputs'
  \/ StreamAnalyzeExecutionError /\ LiveInputs'
  \/ StreamFailed /\ LiveInputs'

SpecCancel == Init /\ [][NextCancel]_vars

----------------------------------------------------------------------------
(* handleStepError over the stores of response messages *)

\* a ResponseMessage row
Message(id, endpointId, statusCode, message) ==
  [id |-> id, endpointId |-> endpointId, statusCode |-> statusCode,
   message |-> message, suggestion |-> ""]

\* the rows a store can hold: one per endpoint and status
MessageRows ==
  { Message(1, 1, 400, "GET /pets of project 1: 400"),
    Message(2, 2, 400, "POST /pet of project 1: 400"),
    Message(3, 3, 400, "POST /pet of project 2: 400"),
    Message(4, 1, 500, "GET /pets of project 1: 500"),
    Message(5, 2, 500, "POST /pet of project 1: 500"),
    Message(6, 3, 500, "POST /pet of project 2: 500") }

\* executePlan about to run a one-step plan, over any store of messages
InitStepError ==
  /\ reqParams = CatalogParams
  /\ respMsgs \in SUBSET MessageRows
  /\ HealIdle
  /\ CacheIdle
  /\ EmitterIdle
  /\ ResolverIdle
  /\ mode = "sync"
  /\ pc = "exec"
  /\ request \in { r \in Requests : r.userContext.authType = "bearer"
                                    /\ r.message = "find pets" }
  /\ stack = << Frame(0, "find pets") >>
  /\ plan \in { << GetPets >>, << PlanStep("POST", "/pet", With1("name", Lit("rex"))) >> }
  /\ analysis = NoAnalysis
  /\ analystCalls = 0
  /\ healed = FALSE
  /\ response = NoResponse
  /\ updates = << >>
  /\ metadataCache = [p \in Projects \cup {EmptyProject} |-> NoMeta]
  /\ usedMetadata = NoMeta
  /\ plannerCalls = 1
  /\ llmReply = "steps"
  /\ stepIdx = 0
  /\ stepResults = << >>
  /\ pendingReq = NoReq
  /\ lastReq = NoReq
  /\ sentSteps = {}
  /\ execResult = NoResult
  /\ judgeReply = "none"
  /\ cancelled = FALSE

NextStepError == ExecuteStep \/ HttpRetry

SpecStepError == InitStepError /\ [][NextStepError]_vars

----------------------------------------------------------------------------
(* CacheService on its own *)

\* bounds of the cache's model: calls of storeResponseData, and the clock
MaxStores == 2
MaxClock == 2

\* a call of storeResponseData
StoreResponseData ==
  /\ stored < MaxStores
  /\ \E projectId \in Projects, query \in Queries, userId \in Users \cup {NoUser} :
       LET r == storeResponseData(cache, userSessionCache, projectId, query,
                                  DataUser, userId, now)
       IN /\ cache' = r.cache
          /\ userSessionCache' = r.sessions
  /\ stored' = stored + 1
  /\ UNCHANGED <<now, context, contextFor>>
  /\ UNCHANGED <<storeVars, healVars, plannerVars, chatVars, execVars>>
  /\ UNCHANGED <<chatHistoryCache, cleared>>
  /\ UNCHANGED <<cancelled, intentVars, jsonVars, emitterVars>>

\* a call of findRelevantContext
FindRelevantContext ==
  /\ \E projectId \in Projects, query \in Queries, userId \in Users \cup {NoUser} :
       /\ context' = findRelevantContext(cache, userSessionCache, projectId, query, userId)
       /\ contextFor' = [projectId |-> projectId, query |-> query, userId |-> userId]
  /\ UNCHANGED <<cache, userSessionCache, now, stored>>
  /\ UNCHANGED <<storeVars, healVars, plannerVars, chatVars, execVars>>
  /\ UNCHANGED <<chatHistoryCache, cleared>>
  /\ UNCHANGED <<cancelled, intentVars, jsonVars, emitterVars>>

\* Date.now() moves on
Tick ==
  /\ now < MaxClock
  /\ now' = now + 1
  /\ UNCHANGED <<cache, userSessionCache, stored, context, contextFor>>
  /\ UNCHANGED <<storeVars, healVars, plannerVars, chatVars, execVars>>
  /\ UNCHANGED <<chatHistoryCache, cleared>>
  /\ UNCHANGED <<cancelled, intentVars, jsonVars, emitterVars>>

\* the response cache's TTL (stdTTL 3600) drops a key
ExpireResponse ==
  /\ \E i \in DOMAIN cache : cache' = CacheDel(cache, cache[i].key)
  /\ UNCHANGED <<userSessionCache, now, stored, context, contextFor>>
  /\ UNCHANGED <<storeVars, healVars, plannerVars, chatVars, execVars>>
  /\ UNCHANGED <<chatHistoryCache, cleared>>
  /\ UNCHANGED <<cancelled, intentVars, jsonVars, emitterVars>>

\* the session cache's TTL (stdTTL 1800) drops a user's list
ExpireSession ==
  /\ \E u \in Users :
       /\ userSessionCache[u] # << >>
       /\ userSessionCache' = [userSessionCache EXCEPT ![u] = << >>]
  /\ UNCHANGED <<cache, now, stored, context, contextFor>>
  /\ UNCHANGED <<storeVars, healVars, plannerVars, chatVars, execVars>>
  /\ UNCHANGED <<chatHistoryCache, cleared>>
  /\ UNCHANGED <<cancelled, intentVars, jsonVars, emitterVars>>

InitCache ==
  /\ reqParams = CatalogParams
  /\ respMsgs = {}
  /\ HealIdle
  /\ ChatIdle
  /\ CacheIdle
  /\ EmitterIdle
  /\ ResolverIdle

NextCache ==
  \/ StoreResponseData
  \/ FindRelevantContext
  \/ Tick
  \/ ExpireResponse
  \/ ExpireSession

SpecCache == InitCache /\ [][NextCache]_vars

----------------------------------------------------------------------------
(* SpecHeal: delta sets applied to the store, each one twice *)

HealProject == 1

\* stores the healer starts from: names unique per endpoint
InitialStores ==
  { {},
    { Param(1, 2, "a", "body", TRUE) },
    { Param(1, 2, "a", "body", TRUE), Param(2, 2, "b", "query", FALSE) },
    { Param(1, 2, "a", "body", TRUE), Param(2, 3, "b", "body", FALSE),
      Param(3, 1, "b", "query", FALSE) } }

MissingItems ==
  { [endpointPath |-> "/pet", method |-> m, parameterName |-> n,
     parameterType |-> "array", isRequired |-> TRUE, location |-> "body"] :
      m \in {"post", "POST"}, n \in {"a", "c"} }
  \cup { [endpointPath |-> "/nope", method |-> "GET", parameterName |-> "a",
          parameterType |-> "array", isRequired |-> TRUE, location |-> "body"] }

CorrectionItems ==
  { [endpointPath |-> "/pet", method |-> "POST",
     oldParameterName |-> o, newParameterName |-> n] :
      o \in {"a", "b"}, n \in {"b", "c"} }

ErrorItems ==
  { [endpointPath |-> "/pet", method |-> "POST", statusCode |-> s,
     message |-> "photoUrls required", suggestion |-> "add photoUrls"] :
      s \in {400, 500} }

SeqsUpTo(S, n) == UNION { [1..k -> S] : k \in 0..n }

DeltaSets ==
  { [missingParameters |-> mp, parameterCorrections |-> co, errorMessages |-> em] :
      mp \in SeqsUpTo(MissingItems, 1),
      co \in SeqsUpTo(CorrectionItems, 2),
      em \in SeqsUpTo(ErrorItems, 1) }

NoSnap == [params |-> {}, msgs |-> {}]

InitHeal ==
  /\ reqParams \in InitialStores
  /\ respMsgs = {}
  /\ healDelta \in DeltaSets
  /\ healRound = 0
  /\ healSnap = NoSnap
  /\ healCount = 1
  /\ healers = << >>
  /\ ChatIdle
  /\ CacheIdle
  /\ EmitterIdle
  /\ ResolverIdle

\* updateMetadataFromError with the extractor's reply healDelta
HealApply ==
  /\ healRound < 2
  /\ \E st \in updateMetadataFromError(reqParams, respMsgs, HealProject, healDelta) :
       /\ reqParams' = st.params
       /\ respMsgs' = st.msgs
       /\ healSnap' = IF healRound = 0 THEN st ELSE healSnap
  /\ healRound' = healRound + 1
  /\ UNCHANGED <<healDelta, healCount, healers>>
  /\ UNCHANGED <<plannerVars, chatVars, execVars>>
  /\ UNCHANGED cacheVars
  /\ UNCHANGED <<cancelled, intentVars, jsonVars, emitterVars>>

\* the next failure brings another delta set
HealNext ==
  /\ healRound = 2
  /\ healCount < MaxHeals
  /\ healDelta' \in DeltaSets
  /\ healRound' = 0
  /\ healSnap' = NoSnap
  /\ healCount' = healCount + 1
  /\ UNCHANGED healers
  /\ UNCHANGED <<storeVars, plannerVars, chatVars, execVars>>
  /\ UNCHANGED cacheVars
  /\ UNCHANGED <<cancelled, intentVars, jsonVars, emitterVars>>

NextHeal == HealApply \/ HealNext

SpecHeal == InitHeal /\ [][NextHeal]_vars

----------------------------------------------------------------------------
(* SpecRace: two requests in the healer at once, with the same key *)

Healers == 1..2

\* the (endpoint, parameterName) or (endpoint, statusCode) an item is about
ItemKey(kind, item) ==
  <<kind, item.endpointPath, toUpperCase(item.method),
    IF kind = "param" THEN item.parameterName ELSE "",
    IF kind = "msg" THEN item.statusCode ELSE 0>>

\* the items two concurrent requests apply: one delta item each, same key
RacePairs ==
  { hs \in [Healers -> ([kind : {"param"}, item : MissingItems]
                          \cup [kind : {"msg"}, item : ErrorItems])] :
      ItemKey(hs[1].kind, hs[1].item) = ItemKey(hs[2].kind, hs[2].item) }

\* ResponseMessage tables the race starts from: statusCode unique per endpoint
InitialMessages ==
  { {},
    { [id |-> 1, endpointId |-> 2, statusCode |-> 400,
       message |-> "bad request", suggestion |-> "check the body"] } }

InitRace ==
  /\ reqParams \in InitialStores
  /\ respMsgs \in InitialMessages
  /\ healDelta = EmptyDelta
  /\ healRound = 0
  /\ healSnap = NoSnap
  /\ healCount = 0
  /\ healers \in { [h \in Healers |->
                      [kind |-> hs[h].kind, item |-> hs[h].item,
                       at |-> "find", existing |-> {}]] : hs \in RacePairs }
  /\ ChatIdle
  /\ CacheIdle
  /\ EmitterIdle
  /\ ResolverIdle

\* the rows of the store that carry the key of healer h's item
RowsOfKey(rp, rm, projectId, hl) ==
  LET endpoint == FindEndpoint(projectId, hl.item.endpointPath,
                               toUpperCase(hl.item.method))
  IN IF endpoint = NoRow THEN {}
     ELSE IF hl.kind = "param"
          THEN FindParams(rp, endpoint.id, hl.item.parameterName)
          ELSE FindMsgs(rm, endpoint.id, hl.item.statusCode)

\* the two awaited findOne calls of an iteration: the endpoint, then the
\* existing row of the key (any one of the candidates); `continue` when
\* the endpoint is unknown, and nothing to do for a message that exists
RaceFind(h) ==
  /\ healers # << >>
  /\ healers[h].at = "find"
  /\ LET hl == healers[h]
         endpoint == FindEndpoint(HealProject, hl.item.endpointPath,
                                  toUpperCase(hl.item.method))
         hits == RowsOfKey(reqParams, respMsgs, HealProject, hl)
     IN IF endpoint = NoRow
        THEN healers' = [healers EXCEPT ![h].at = "done"]
        ELSE IF hits = {}
        THEN healers' = [healers EXCEPT ![h].at = "save"]
        ELSE IF hl.kind = "msg"
        THEN healers' = [healers EXCEPT ![h].at = "done"]
        ELSE \E e \in hits :
               healers' = [healers EXCEPT ![h].at = "save", ![h].existing = {e}]
  /\ UNCHANGED <<healDelta, healRound, healSnap, healCount>>
  /\ UNCHANGED <<storeVars, plannerVars, chatVars, execVars>>
  /\ UNCHANGED cacheVars
  /\ UNCHANGED <<cancelled, intentVars, jsonVars, emitterVars>>

\* the awaited save: UPDATE of the row findOne gave, or INSERT of the row
\* create() built, with the id the table generates
RaceSave(h) ==
  /\ healers # << >>
  /\ healers[h].at = "save"
  /\ LET hl == healers[h]
         endpoint == FindEndpoint(HealProject, hl.item.endpointPath,
                                  toUpperCase(hl.item.method))
     IN IF hl.kind = "param"
        THEN /\ reqParams' =
                  IF hl.existing # {}
                  THEN { IF r.id \in { e.id : e \in hl.existing }
                         THEN [r EXCEPT !.required = hl.item.isRequired,
                                        !.type = hl.item.parameterType,
                                        !.in = hl.item.location]
                         ELSE r : r \in reqParams }
                  ELSE reqParams \cup
                         { [id |-> NextId(reqParams),
                            endpointId |-> endpoint.id,
                            name |-> hl.item.parameterName,
                            type |-> hl.item.parameterType,
                            required |-> hl.item.isRequired,
                            in |-> hl.item.location] }
             /\ UNCHANGED respMsgs
        ELSE /\ respMsgs' = respMsgs \cup
                              { [id |-> NextId(respMsgs),
                                 endpointId |-> endpoint.id,
                                 statusCode |-> hl.item.statusCode,
                                 message |-> hl.item.message,
                                 suggestion |-> hl.item.suggestion] }
             /\ UNCHANGED reqParams
  /\ healers' = [healers EXCEPT ![h].at = "done"]
  /\ UNCHANGED <<healDelta, healRound, healSnap, healCount>>
  /\ UNCHANGED <<plannerVars, chatVars, execVars>>
  /\ UNCHANGED cacheVars
  /\ UNCHANGED <<cancelled, intentVars, jsonVars, emitterVars>>

NextRace == \E h \in Healers : RaceFind(h) \/ RaceSave(h)

SpecRace == InitRace /\ [][NextRace]_vars

----------------------------------------------------------------------------
(* resolveIntent on its own: catalogs with their AI-analysis fields *)

\* the arguments of resolveIntent: a query, the embedding
\* generateQueryEmbedding returned for it, and the endpoints of
\* loadApiMetadata (order path ASC) with the embeddingVector, keywords,
\* intentPatterns and promptText the analysis stored for each
IntentInputs ==
  LET rows == EndpointsByPath(RequestProject, PathOrder)
      analysed(e) ==
        { [method |-> e.method, path |-> e.path, embeddingVector |-> v,
           keywords |-> k, intentPatterns |-> p, promptText |-> t] :
            v \in { << >>, <<1, 0, 0, 0>>, <<1, 1, 1, 1>>, <<-1, 0, 0, 0>>, <<1, 0>> },
            k \in { << >>, << "Pet", "orders" >> },
            p \in { << >>, << "find pets" >>, << "find orders" >> },
            t \in { "", "Returns every pet of the store" } }
  IN { [userQuery |-> q, queryEmbedding |-> qe, endpoints |-> << a, b >>] :
         q \in { "find pets", "list orders" },
         qe \in { NoEmbedding, <<1, 0, 0, 0>> },
         a \in analysed(rows[1]), b \in analysed(rows[2]) }

InitIntent ==
  /\ reqParams = CatalogParams
  /\ respMsgs = {}
  /\ HealIdle
  /\ ChatIdle
  /\ CacheIdle
  /\ EmitterIdle
  /\ intentInput \in IntentInputs
  /\ matchedEndpoints = << >>
  /\ previousMatch = << >>
  /\ resolveCalls = 0
  /\ jsonArgs = NoJsonArgs
  /\ jsonResult = NoJsonResult

\* createPlan's call of resolveIntent; a later createPlan of the same query
\* over the same cached metadata calls it with the same arguments
ResolveIntent ==
  /\ resolveCalls < 2
  /\ resolveCalls' = resolveCalls + 1
  /\ previousMatch' = matchedEndpoints
  /\ matchedEndpoints' = resolveIntent(intentInput.userQuery,
                                       intentInput.queryEmbedding,
                                       intentInput.endpoints)
  /\ UNCHANGED <<intentInput, jsonVars, emitterVars>>
  /\ UNCHANGED <<storeVars, healVars, plannerVars, chatVars, execVars, cacheVars>>
  /\ UNCHANGED cancelled

SpecIntent == InitIntent /\ [][ResolveIntent]_vars

----------------------------------------------------------------------------
(* evaluateJSONPath on its own *)

\* paths and JSON values: the primitives, {}, {a: v} and {a: {b: v}}
JsonInputs ==
  LET primitives == { Json("number", "0", {}), Json("number", "7", {}),
                      Json("boolean", "false", {}), Json("boolean", "true", {}),
                      Json("string", "", {}), Json("string", "x", {}),
                      JsonNull }
      object(name, v) == Json("object", "", { <<name, v>> })
      inner == primitives \cup { Json("object", "", {}) }
      values == inner \cup { object("a", v) : v \in inner }
                      \cup { object("a", object("b", v)) : v \in inner }
  IN { [path |-> p, data |-> d] : p \in { "$", "$.a", "$.a.b" }, d \in values }

InitJson ==
  /\ reqParams = CatalogParams
  /\ respMsgs = {}
  /\ HealIdle
  /\ ChatIdle
  /\ CacheIdle
  /\ EmitterIdle
  /\ intentInput = NoIntentInput
  /\ matchedEndpoints = << >>
  /\ previousMatch = << >>
  /\ resolveCalls = 0
  /\ jsonArgs \in JsonInputs
  /\ jsonResult = NoJsonResult

EvaluateJSONPath ==
  /\ jsonResult = NoJsonResult
  /\ jsonResult' = evaluateJSONPath(jsonArgs.path, jsonArgs.data)
  /\ UNCHANGED <<jsonArgs, intentVars, emitterVars>>
  /\ UNCHANGED <<storeVars, healVars, plannerVars, chatVars, execVars, cacheVars>>
  /\ UNCHANGED cancelled

SpecJson == InitJson /\ [][EvaluateJSONPath]_vars

----------------------------------------------------------------------------
(* clearUserCache among the stores of several projects *)

\* calls of clearUserCache
MaxClears == 2

\* clearUserCache: [sessions, histories] after the call.  With a userId it
\* deletes the user's session list and the history of (projectId, userId);
\* without one, every history whose key starts with hist_p<projectId>_
clearUserCache(sessions, histories, projectId, userId) ==
  IF userId # NoUser
  THEN [sessions |-> [sessions EXCEPT ![userId] = << >>],
        histories |-> [histories EXCEPT
                         ![generateHistoryKey(projectId, userId)] = << >>]]
  ELSE [sessions |-> sessions,
        histories |-> [k \in DOMAIN histories |->
                         IF k[1] = projectId THEN << >> ELSE histories[k]]]

\* a completed request of a user in a project: storeResponseData, then
\* storeChatHistory, at a later Date.now() each
StoreTurn ==
  /\ stored < MaxStores
  /\ \E projectId \in Projects, query \in {"find pets", "list orders"},
        userId \in Users \cup {NoUser} :
       LET r == storeResponseData(cache, userSessionCache, projectId, query,
                                  DataUser, userId, now)
       IN /\ cache' = r.cache
          /\ userSessionCache' = r.sessions
          /\ chatHistoryCache' = storeChatHistory(chatHistoryCache, projectId,
                                    HistoryItem(query, userId, now), userId)
  /\ stored' = stored + 1
  /\ now' = now + 1
  /\ UNCHANGED <<context, contextFor, cleared>>
  /\ UNCHANGED <<storeVars, healVars, plannerVars, chatVars, execVars>>
  /\ UNCHANGED <<cancelled, intentVars, jsonVars, emitterVars>>

\* a call of clearUserCache
ClearUserCache ==
  /\ cleared.calls < MaxClears
  /\ \E projectId \in Projects, userId \in Users \cup {NoUser} :
       LET r == clearUserCache(userSessionCache, chatHistoryCache, projectId, userId)
       IN /\ userSessionCache' = r.sessions
          /\ chatHistoryCache' = r.histories
          /\ cleared' = [projectId |-> projectId, userId |-> userId,
                         calls |-> cleared.calls + 1]
  /\ UNCHANGED <<cache, now, stored, context, contextFor>>
  /\ UNCHANGED <<storeVars, healVars, plannerVars, chatVars, execVars>>
  /\ UNCHANGED <<cancelled, intentVars, jsonVars, emitterVars>>

NextClear == StoreTurn \/ ClearUserCache

SpecClear == InitCache /\ [][NextClear]_vars

----------------------------------------------------------------------------
(* The caps of the session lists and chat histories *)

\* streams one caller completes one after another
MaxCompleted == 102

\* the end of a successful stream (processQueryWithRetryStream, lines
\* 266-281): storeResponseData, which adds to the user's session, then
\* storeChatHistory.  The streams are those of one caller, a user of a
\* project or an anonymous one, each at a later Date.now().
StoreCompleted ==
  /\ stored < MaxCompleted
  /\ \E projectId \in Projects, userId \in Users \cup {NoUser} :
       LET r == storeResponseData(cache, userSessionCache, projectId, "find pets",
                                  DataUser, userId, now)
       IN /\ \A k \in DOMAIN chatHistoryCache :
               k # generateHistoryKey(projectId, userId) => chatHistoryCache[k] = << >>
          /\ cache' = r.cache
          /\ userSessionCache' = r.sessions
          /\ chatHistoryCache' = storeChatHistory(chatHistoryCache, projectId,
                                    HistoryItem("find pets", userId, now), userId)
  /\ stored' = stored + 1
  /\ now' = now + 1
  /\ UNCHANGED <<context, contextFor, cleared>>
  /\ UNCHANGED <<storeVars, healVars, plannerVars, chatVars, execVars>>
  /\ UNCHANGED <<cancelled, intentVars, jsonVars, emitterVars>>

SpecCaps == InitCache /\ [][StoreCompleted]_vars

----------------------------------------------------------------------------
(* SpecEmitter: listeners registered, removed, and events emitted *)

\* on() and once() calls, and emit() calls
MaxListeners == 3
MaxEmits == 2

\* on(event, listener) or once(event, listener) with a new listener
Register ==
  /\ registrations < MaxListeners
  /\ \E once \in BOOLEAN, throws \in BOOLEAN :
       events' = on(events, [id |-> registrations + 1, once |-> once,
                             throws |-> throws])
  /\ registrations' = registrations + 1
  /\ UNCHANGED emitLog
  /\ UNCHANGED <<storeVars, healVars, plannerVars, chatVars, execVars>>
  /\ UNCHANGED cacheVars
  /\ UNCHANGED <<cancelled, intentVars, jsonVars>>

\* off(event, listener) for a listener registered with on()
Off ==
  /\ \E i \in DOMAIN events :
       /\ ~events[i].once
       /\ events' = off(events, events[i].id)
  /\ UNCHANGED <<registrations, emitLog>>
  /\ UNCHANGED <<storeVars, healVars, plannerVars, chatVars, execVars>>
  /\ UNCHANGED cacheVars
  /\ UNCHANGED <<cancelled, intentVars, jsonVars>>

\* emit(event)
Emit ==
  /\ Len(emitLog) < MaxEmits
  /\ LET r == emit(events)
     IN /\ events' = r.events
        /\ emitLog' = Append(emitLog, [registered |-> events, invoked |-> r.invoked])
  /\ UNCHANGED registrations
  /\ UNCHANGED <<storeVars, healVars, plannerVars, chatVars, execVars>>
  /\ UNCHANGED cacheVars
  /\ UNCHANGED <<cancelled, intentVars, jsonVars>>

NextEmitter == Register \/ Off \/ Emit

SpecEmitter == InitCache /\ [][NextEmitter]_vars

----------------------------------------------------------------------------
(* Properties *)

\* C1: a request makes at most three createPlan calls (three passes),
\* whatever fails in the retried passes.
C1_AtMostThreePasses == plannerCalls <= 3

\* C2: once the healer has applied its delta, the plan of the retry is
\* validated against metadata that holds what the store holds then.
C2_RetrySeesHealedMetadata ==
  (healed /\ pc = "exec") => usedMetadata = LoadFromDb(reqParams, request.projectId)

\* C3: findRelevantContext(p1, q, u) returns no entry stored under another
\* project, the entries taken from the user's session list included.
C3_ContextWithinProject ==
  \A i \in DOMAIN context : context[i].projectId = contextFor.projectId

\* C4: in a plan that createPlan returned, a reference $.steps[i] in
\* step k has i < k.
C4_ReferencesPointBack ==
  pc = "exec" =>
    \A k \in DOMAIN plan : \A n \in ParamNames :
      plan[k].params[n].kind = "ref" => plan[k].params[n].step < k - 1

\* C5: no HTTP request is dispatched for a step that has a reference with
\* zero matches in the results of the steps before it.
C5_UnresolvedReferenceNotSent ==
  \A k \in sentSteps : \A n \in ParamNames :
    plan[k + 1].params[n].kind = "ref" =>
      JSONPathQuery(plan[k + 1].params[n], SubSeq(stepResults, 1, k)) # {}

\* C6: when the judge answers YES after step i of an N-step plan, no step
\* after i is dispatched, and the response is a success with
\* earlyTermination, stepsExecuted = i + 1 < planSteps = N.
C6_EarlyTermination ==
  LET yes == /\ stepResults # << >>
             /\ stepResults[Len(stepResults)].satisfiesUserRequest = "true"
  IN /\ (yes /\ pc \in {"executed", "done"}) =>
          /\ execResult.success /\ execResult.earlyTermination
          /\ Len(stepResults) = stepIdx + 1
          /\ sentSteps = 0 .. stepIdx
     /\ (yes /\ pc = "done") =>
          /\ response.returned /\ response.success /\ response.earlyTermination
          /\ response.stepsExecuted = stepIdx + 1
          /\ response.planSteps = Len(plan)
          /\ response.stepsExecuted < response.planSteps

\* C6's case: a three-step plan ended by the judge after its second step
C6_Witness ==
  /\ pc = "done" /\ response.earlyTermination
  /\ response.stepsExecuted = 2 /\ response.planSteps = 3

\* C7: every request sent carries Authorization: Bearer <token> for a
\* bearer credential, Cookie: <name>=<value> for a session credential, and
\* neither header without a credential, whatever the step's parameters.
C7_AuthHeaders ==
  lastReq # NoReq =>
    LET uc == request.userContext
        bearer == uc.present /\ uc.authType = "bearer"
        session == uc.present /\ uc.authType = "session"
    IN /\ lastReq.headers["Authorization"] =
            (IF bearer THEN BearerOf(uc.bearerToken) ELSE "")
       /\ lastReq.headers["Cookie"] =
            (IF session THEN CookieOf(uc.cookieName, uc.sessionCookie) ELSE "")

\* C8: in processQuery and in processQueryStream alike, a request ends in
\* failure only when two retries were used or the analyst, consulted on the
\* failing pass, declined to retry.
C8_FailureOnlyAfterAnalyst ==
  LET failed == IF mode = "sync" THEN response.returned /\ ~response.success
                ELSE updates[Len(updates)].type = "error"
  IN (pc = "done" /\ failed) =>
       \/ plannerCalls - 1 >= 2
       \/ analysis # NoAnalysis /\ ~WantsRetry(analysis)

\* C11: the retryCount of the final response is the number of pipeline
\* restarts of the request, on success and on failure alike.
C11_RetryCountIsRestarts ==
  (pc = "done" /\ response.returned) => response.retryCount = plannerCalls - 1

\* C12: a request that ends with success = true has stored its query and
\* result in the response cache and appended exactly one item to the chat
\* history, whatever the result data is.
C12_SuccessIsCachedAndLogged ==
  (pc = "done" /\ response.success) =>
    /\ \E i \in DOMAIN cache : /\ cache[i].value.projectId = request.projectId
                               /\ cache[i].value.data = response.data
    /\ Len(chatHistoryCache[generateHistoryKey(request.projectId, request.userId)]) = 1

\* C13: a plan that createPlan returned has at least one step, and each
\* step names an endpoint of the project's metadata and has every required
\* parameter of that endpoint among its params.
C13_PlanResolvable ==
  pc = "exec" =>
    /\ Len(plan) >= 1
    /\ \A k \in DOMAIN plan :
         \E ep \in Endpoints :
           /\ ep.projectId = request.projectId
           /\ <<ep.method, ep.path>> = plan[k].endpoint
           /\ \A r \in reqParams :
                (r.endpointId = ep.id /\ r.required) => plan[k].params[r.name] # Absent

C15_RetryOnlyOnAnalystYes ==
  (pc = "plan" /\ plannerCalls > 0) =>
    /\ analysis.shouldRetry
    /\ analysis.correctedQuery \notin {"", "not asked"}
    /\ Top.message = analysis.correctedQuery
    /\ Top.retryCount > 0

\* C15's case: a retry pass about to plan, in either mode
C15_Witness ==
  /\ pc = "plan" /\ plannerCalls = 2 /\ mode = "stream"
  /\ Top.message = "find available pets" /\ analystCalls = 2

\* C16: every request reaches a terminal state: processQuery returns a
\* response, processQueryStream returns after a completed or an error
\* update.
C16_RequestTerminates ==
  (pc # "idle") ~>
    (/\ pc = "done"
     /\ mode = "sync" => response.returned
     /\ mode = "stream" => updates[Len(updates)].type \in {"completed", "error"})

\* C16's case: a request that ended after its whole retry budget
C16_Witness == pc = "done" /\ plannerCalls = 3 /\ Len(stack) = 3

\* C17: once the caller has cancelled a request in progress, the request
\* makes no further planner call, HTTP call, cache write or metadata write.
C17_NoSideEffectAfterCancel ==
  [][cancelled => /\ plannerCalls' = plannerCalls
                  /\ lastReq' = lastReq
                  /\ cache' = cache
                  /\ chatHistoryCache' = chatHistoryCache
                  /\ reqParams' = reqParams
                  /\ respMsgs' = respMsgs]_vars

\* C18: processQueryStream runs the pipeline of processQuery; in
\* particular a pass that retries a failed execution starts, in either mode,
\* after the healer has applied its metadata delta.
C18_StreamRunsSyncPipeline ==
  (\E i \in 1 .. Len(stack) - 1 : stack[i].site = "try") => healed

\* C19: the message of a step that failed with status s is the
\* ResponseMessage of the step's own endpoint and s when there is one,
\* else a ResponseMessage for s of another endpoint of the project, else
\* the generic text for s.
C19_MessagePreference ==
  (execResult # NoResult /\ ~execResult.success
     /\ execResult.steps[Len(execResult.steps)].statusCode # 0) =>
    LET failed == execResult.steps[Len(execResult.steps)]
        s == failed.statusCode
        own == { r \in respMsgs :
                   /\ r.statusCode = s
                   /\ EndpointById(r.endpointId).projectId = request.projectId
                   /\ <<EndpointById(r.endpointId).method,
                        EndpointById(r.endpointId).path>> = failed.endpoint }
        project == { r \in respMsgs :
                       /\ r.statusCode = s
                       /\ EndpointById(r.endpointId).projectId = request.projectId }
    IN IF own # {} THEN execResult.error \in { r.message : r \in own }
       ELSE IF project # {} THEN execResult.error \in { r.message : r \in project }
       ELSE execResult.error \in {statusMessages(s), "Request failed with status"}

\* C20: a step is sent at most twice; the second attempt follows a first
\* one that failed with a connection reset, a timeout or a 5xx status,
\* after a backoff of 1 s; a 4xx response is not retried.
C20_OneRetryOnTransientFailure ==
  LET transient(o) == o.code \in {"ECONNRESET", "ETIMEDOUT"} \/ o.status >= 500
      second(req) == /\ req.attempt = 1
                     /\ transient(req.after)
                     /\ req.after.status \notin 400 .. 499
                     /\ req.delay = 1000
  IN /\ lastReq.attempt \in {0, 1}
     /\ lastReq.attempt = 0 => lastReq.delay = 0 /\ lastReq.after = NoOutcome
     /\ lastReq.attempt = 1 => second(lastReq)
     /\ pc = "http_retry" => second(pendingReq) /\ lastReq.attempt = 0
                               /\ lastReq.step = pendingReq.step

\* C20's case: a second attempt sent after a 500
C20_Witness == lastReq.attempt = 1 /\ lastReq.after.status = 500

\* C21: when at least one endpoint scores 0.2 or more, resolveIntent
\* returns exactly the endpoints scoring 0.2 or more: one scoring exactly
\* 0.2 is in the output, none scoring less is.
C21_ThresholdInclusive ==
  resolveCalls > 0 =>
    LET eps == intentInput.endpoints
        score(i) == matchScore(intentInput.userQuery, intentInput.queryEmbedding, eps[i])
        passing == { i \in DOMAIN eps : score(i) >= 2000 }
    IN passing # {} =>
         { <<e.method, e.path>> : e \in Range(matchedEndpoints) }
           = { <<eps[i].method, eps[i].path>> : i \in passing }

\* C22: for every endpoint and query, a negative cosine similarity
\* included, the semantic, keyword and intent signals lie in [0, 1] and
\* the score lies in [0, 1.1].
C22_SignalsAndScoreInRange ==
  resolveCalls > 0 =>
    \A i \in DOMAIN intentInput.endpoints :
      LET ep == intentInput.endpoints[i]
          semantic == IF intentInput.queryEmbedding # NoEmbedding
                         /\ Len(ep.embeddingVector) > 0
                      THEN calculateCosineSimilarity(intentInput.queryEmbedding,
                                                     ep.embeddingVector)
                      ELSE 0
          keyword == calculateKeywordSimilarity(intentInput.userQuery, ep.keywords)
          intent == calculateIntentSimilarity(intentInput.userQuery, ep.intentPatterns)
          score == matchScore(intentInput.userQuery, intentInput.queryEmbedding, ep)
      IN /\ semantic \in 0..1000
         /\ keyword \in 0..1000
         /\ intent \in 0..1000
         /\ score \in 0..11000

\* C23: the output of resolveIntent is in non-increasing score order,
\* endpoints of equal score are in lexicographic (method, path) order, and
\* a second call with the same metadata and embedding returns the same
\* ordering.
C23_SortedWithLexTieBreak ==
  LET out == matchedEndpoints
      scored == \A k \in DOMAIN out : "matchScore" \in DOMAIN out[k]
      \* "GET" < "POST"; "/pet" < "/pets"
      methodLess(a, b) == a = "GET" /\ b = "POST"
      pathLess(a, b) == a = "/pet" /\ b = "/pets"
      lexLess(a, b) == \/ methodLess(a.method, b.method)
                       \/ a.method = b.method /\ pathLess(a.path, b.path)
  IN /\ (resolveCalls > 0 /\ scored) =>
          \A i, j \in DOMAIN out :
            i < j => /\ out[i].matchScore >= out[j].matchScore
                     /\ out[i].matchScore = out[j].matchScore
                          => lexLess(out[i], out[j])
     /\ resolveCalls > 1 => matchedEndpoints = previousMatch

C25_EmptyStepsFallsBack ==
  llmReply = "empty_steps" =>
    LET md == usedMetadata
        noRequired(i) == \A q \in md[i].parameters : ~q.required
        getEndpoints == { i \in DOMAIN md : /\ md[i].method = "GET"
                                            /\ md[i].path # "/pet/{petId}"
                                            /\ noRequired(i) }
        simpleEndpoints == { i \in DOMAIN md : noRequired(i) }
        call(i) == << [endpoint |-> <<md[i].method, md[i].path>>,
                       params |-> NoParams] >>
    IN /\ plan # << >>
       /\ getEndpoints # {} =>
            plan = call(CHOOSE i \in getEndpoints : \A j \in getEndpoints : i <= j)
       /\ (getEndpoints = {} /\ simpleEndpoints # {}) =>
            \E i \in simpleEndpoints : plan = call(i)
       /\ simpleEndpoints = {} => plan = NoPlan

C25_Witness ==
  /\ llmReply = "empty_steps"
  /\ request.projectId = RequestProject
  /\ pc = "exec"
  /\ plan = << GetPets >>

\* C26: when the planner's LLM call fails or its reply is not valid JSON,
\* the planner falls back to the simple one-step plan, and planning fails
\* only if the catalog has no endpoint the fallback can call.
C26_FallbackOnLlmFailure ==
  llmReply \in {"llm_error", "bad_json"} =>
    LET md == usedMetadata
        simpleEndpoints == { i \in DOMAIN md : \A q \in md[i].parameters : ~q.required }
    IN simpleEndpoints # {} =>
         \E i \in simpleEndpoints :
           plan = << [endpoint |-> <<md[i].method, md[i].path>>, params |-> NoParams] >>

\* C27: for a project whose catalog is empty createPlan raises whatever the
\* LLM replies, no HTTP request goes out to the target service, and
\* processQuery returns success = false.
C27_EmptyCatalogFailsCleanly ==
  (request.projectId = EmptyProject /\ mode # "idle") =>
    /\ plan = NoPlan
    /\ pc # "exec"
    /\ sentSteps = {} /\ lastReq = NoReq /\ pendingReq = NoReq
    /\ (mode = "sync" /\ pc = "done") => (response.returned /\ ~response.success)

C27_Witness ==
  /\ request.projectId = EmptyProject
  /\ mode = "sync"
  /\ pc = "done"
  /\ llmReply = "steps"
  /\ response.returned
  /\ ~response.success

\* C28: a failure of the judge's LLM call, or any reply other than YES,
\* fails neither the step nor the plan: the step stays successful and
\* execution goes on to step i+1, as it does when the judge answers NO.
C28_JudgeFailureContinues ==
  (judgeReply \notin {"none", "YES", "yes"}) =>
    /\ pc = "exec"
    /\ execResult = NoResult
    /\ stepIdx = Len(stepResults)
    /\ stepIdx < Len(plan)
    /\ \A k \in DOMAIN stepResults : stepResults[k].success
    /\ stepResults[Len(stepResults)].satisfiesUserRequest = "false"

C28_Witness ==
  /\ judgeReply = "error"
  /\ pc = "exec"
  /\ stepIdx = 1
  /\ Len(plan) = 2

\* C29: every update processQueryStream emits with a progress value
\* carries an integer in [0, 100], whatever the plan length and the step
\* index of a step_completed update.
C29_ProgressIsIntegerPercent ==
  \A k \in DOMAIN updates :
    LET num == updates[k].progress[1]
        den == updates[k].progress[2]
    IN num # NoProgress => (num % den = 0 /\ (num \div den) \in 0..100)

\* C30: evaluateJSONPath returns x for the path "$" on every JSON value x,
\* the falsy ones (0, false, "", null) included, and returns v for the
\* path "$.a.b" on {a: {b: v}} for every value v.
C30_RootAndNestedPath ==
  jsonResult # NoJsonResult =>
    /\ jsonArgs.path = "$" => jsonResult = jsonArgs.data
    /\ \A v \in { a.data : a \in JsonInputs } :
         (/\ jsonArgs.path = "$.a.b"
          /\ jsonArgs.data = Json("object", "", { <<"a", Json("object", "", { <<"b", v>> })>> }))
           => jsonResult = v

\* C31: after any sequence of stores a user's session list holds at most 20
\* entries and a chat history at most 100 items, and those kept are the
\* most recently stored ones, newest first.
C31_CapsKeepNewest ==
  LET least(a, b) == IF a < b THEN a ELSE b
      newest(list, cap) ==
        /\ Len(list) = least(stored, cap)
        /\ \A i \in DOMAIN list : list[i].timestamp = now - i
  IN /\ \A u \in Users :
          /\ Len(userSessionCache[u]) <= 20
          /\ userSessionCache[u] # << >> => newest(userSessionCache[u], 20)
          /\ (\E p \in Projects : chatHistoryCache[<<p, u>>] # << >>)
               => userSessionCache[u] # << >>
     /\ \A k \in DOMAIN chatHistoryCache :
          /\ Len(chatHistoryCache[k]) <= 100
          /\ chatHistoryCache[k] # << >> => newest(chatHistoryCache[k], 100)
     /\ stored > 0 => \E k \in DOMAIN chatHistoryCache : chatHistoryCache[k] # << >>

\* C31's case: both caps have cut a list
C31_Witness ==
  /\ stored > 100
  /\ \E u \in Users : Len(userSessionCache[u]) = 20
  /\ \E k \in DOMAIN chatHistoryCache : Len(chatHistoryCache[k]) = 100

\* C32: in processQueryStream a step_completed update for step k is
\* emitted only if step k was executed successfully: none for a step after
\* an early termination or a failure, and as many step_completed updates
\* in a pass as the pass has successful step results.  Stated for the first
\* pass of a stream.
C32_StepCompletedOnlyForExecutedSteps ==
  (mode = "stream" /\ plannerCalls = 1) =>
    LET completed == { k \in DOMAIN updates : updates[k].type = "step_completed" }
        succeeded == { i \in DOMAIN stepResults : stepResults[i].success }
    IN /\ \A k \in completed : updates[k].step \in succeeded
       /\ pc = "done" => Cardinality(completed) = Cardinality(succeeded)

\* C33: the updates of a processQueryStream call end with one terminal
\* update, completed on success and error on failure, and none follows it;
\* completed is emitted at most once and never when the final pass failed.
C33_OneTerminalUpdate ==
  LET n == Len(updates)
      completed == { k \in DOMAIN updates : updates[k].type = "completed" }
      finalPassSucceeded == execResult # NoResult /\ execResult.success
  IN /\ Cardinality(completed) <= 1
     /\ completed \subseteq {n}
     /\ completed # {} => (pc = "done" /\ finalPassSucceeded)
     /\ (mode = "stream" /\ pc = "done") =>
          /\ n > 0
          /\ updates[n].type = IF finalPassSucceeded THEN "completed" ELSE "error"
          /\ updates[n].type = "error" => updates[n].progress[1] = NoProgress
          /\ \A k \in 1..(n - 1) :
               updates[k].type = "error" => updates[k].progress[1] # NoProgress

\* C33's case: a stream that retried and then failed for good
C33_Witness ==
  /\ mode = "stream"
  /\ pc = "done"
  /\ plannerCalls = 3
  /\ execResult # NoResult /\ ~execResult.success
  /\ \E k \in DOMAIN updates : updates[k].type = "error" /\ updates[k].progress[1] = 60

\* C34: when two concurrent requests have applied a healer delta for the
\* same key - the same (endpoint, parameterName) or the same (endpoint,
\* statusCode) of a known endpoint - the store holds exactly one
\* RequestParameter or ResponseMessage row for that key, whatever the
\* interleaving of their find and save operations was.
C34_OneRowPerKeyAfterRace ==
  (healers # << >> /\ \A h \in Healers : healers[h].at = "done")
    => \A h \in Healers :
         FindEndpoint(HealProject, healers[h].item.endpointPath,
                      toUpperCase(healers[h].item.method)) # NoRow
           => Cardinality(RowsOfKey(reqParams, respMsgs, HealProject,
                                    healers[h])) = 1

\* C35: a request that succeeds on its first pass leaves the metadata
\* store as it found it, and every step of a request that changes the
\* RequestParameter or ResponseMessage rows is the healer's, taken after a
\* failed pass and ending in the recursive call that retries.
C35_StoreWrittenOnlyByHealerBeforeRetry ==
  /\ [][(reqParams' # reqParams \/ respMsgs' # respMsgs)
          => /\ pc = "heal"
             /\ ~execResult.success
             /\ healed'
             /\ pc' = "plan"
             /\ Len(stack') = Len(stack) + 1]_vars
  /\ [](plannerCalls = 1 /\ execResult.success
          => reqParams = CatalogParams /\ respMsgs = {})

\* C35's case: the healer has written a row and the retry is under way
C35_Witness ==
  /\ reqParams # CatalogParams \/ respMsgs # {}
  /\ Len(stack) = 2
  /\ plannerCalls = 2

\* C36: when executePlan has returned with every step successful and no
\* judge answer of YES, the N steps of the plan were executed in order, the
\* judge was consulted after each of the steps 0..N-2 and not after step
\* N-1, and the response reports stepsExecuted = planSteps = N with
\* earlyTermination = false.
C36_AllStepsRunAndJudgedButLast ==
  (/\ pc \in {"executed", "done"}
   /\ execResult.success
   /\ \A k \in 1..Len(execResult.steps) :
        execResult.steps[k].satisfiesUserRequest # "true")
    => /\ Len(execResult.steps) = Len(plan)
       /\ \A k \in 1..Len(execResult.steps) :
            /\ execResult.steps[k].stepIndex = k - 1
            /\ execResult.steps[k].success
            /\ execResult.steps[k].satisfiesUserRequest =
                 IF k < Len(plan) THEN "false" ELSE "unset"
       /\ ~execResult.earlyTermination
       /\ response.returned
            => /\ response.stepsExecuted = Len(plan)
               /\ response.planSteps = Len(plan)
               /\ ~response.earlyTermination

\* C37: the error message of a failed step of project p is never the
\* message of a ResponseMessage row whose endpoint belongs to another
\* project, whatever rows the other projects hold for the same method,
\* path and status code.
C37_NoMessageOfAnotherProject ==
  (execResult # NoResult /\ ~execResult.success) =>
    execResult.error \notin
      { r.message : r \in { m \in respMsgs :
          EndpointById(m.endpointId).projectId # request.projectId } }

\* C38: a call clearUserCache(p, u) leaves, for every other project p2,
\* findRelevantContext(p2, q, u) for every query q, the entries of p2 among
\* the user's session data and getChatHistory(p2, u) as they were.
C38_ClearLeavesOtherProjects ==
  [][cleared' # cleared =>
       LET p == cleared'.projectId
           u == cleared'.userId
           ofProject(p2, sessionData) ==
             LET own(d) == d.projectId = p2 IN SelectSeq(sessionData, own)
       IN \A p2 \in Projects \ {p} :
            /\ \A q \in Queries :
                 findRelevantContext(cache', userSessionCache', p2, q, u)
                   = findRelevantContext(cache, userSessionCache, p2, q, u)
            /\ u # NoUser =>
                 ofProject(p2, getUserSessionData(cache', userSessionCache'[u]))
                   = ofProject(p2, getUserSessionData(cache, userSessionCache[u]))
            /\ chatHistoryCache'[generateHistoryKey(p2, u)]
                 = chatHistoryCache[generateHistoryKey(p2, u)]]_vars

\* C39: every emit() invoked each listener that was registered when it
\* was called exactly once, also when a once() listener among them removed
\* itself during the emit, and no once() listener was invoked by more than
\* one emit.
C39_EmitInvokesEveryListenerOnce ==
  /\ \A e \in DOMAIN emitLog :
       \A i \in DOMAIN emitLog[e].registered :
         Cardinality({ j \in DOMAIN emitLog[e].invoked :
                         emitLog[e].invoked[j] = emitLog[e].registered[i].id }) = 1
  /\ \A e1, e2 \in DOMAIN emitLog :
       \A i \in DOMAIN emitLog[e1].registered :
         (/\ emitLog[e1].registered[i].once
          /\ \E j \in DOMAIN emitLog[e1].invoked :
               emitLog[e1].invoked[j] = emitLog[e1].registered[i].id
          /\ \E j \in DOMAIN emitLog[e2].invoked :
               emitLog[e2].invoked[j] = emitLog[e1].registered[i].id)
           => e1 = e2

\* C9: applying the same delta set twice (addMissingParameters,
\* correctParameters, addErrorMessages, then the same again) leaves the
\* store as one application left it.
C9_HealIdempotent ==
  healRound = 2 => (reqParams = healSnap.params /\ respMsgs = healSnap.msgs)

\* C10: from a store with unique names per endpoint, no endpoint ever has
\* two RequestParameters with the same name.
C10_ParamNamesUnique ==
  \A r1, r2 \in reqParams :
    (r1.endpointId = r2.endpointId /\ r1.name = r2.name) => r1.id = r2.id

====
